---- MODULE Spec2Model ----
(***************************************************************************)
(* Template-driven document assembly: DocumentRenderer.render_to_docs and  *)
(* the recursive _render_section walk of ai_writing/templates/renderer.py, *)
(* with the parts of TemplateEngine (Jinja2) it depends on, and the        *)
(* GoogleDocsService of ai_writing/services/google/docs.py with its        *)
(* RateLimiter and its retried remote calls.                               *)
(***************************************************************************)
EXTENDS Integers, Sequences, FiniteSets, TLC

VARIABLES
    pc,               \* position of render_to_docs
    template,         \* the template file named by template_name (input)
    context,          \* id of the caller's context dict in the heap (input)
    template_config,  \* json.loads(rendered_template)
    doc_id,           \* value returned by create_document
    index,            \* the insertion cursor threaded through the recursion
    stack,            \* active for-loops of render_to_docs / _render_section
    heap,             \* Python dict objects: context and loop_context copies
    calls,            \* calls received by docs_service, in order
    returned,         \* the latest return of _render_section
    result,           \* value returned (or exception raised) by render_to_docs
    clock,            \* time.time(), in seconds
    rate_limiter,     \* the RateLimiter object: max_calls, period, calls
    admitted,         \* timestamps appended by completed wait_if_needed calls
    threads,          \* position and locals of the threads and calls in progress
    outcome           \* the latest operation on the service or the limiter

\* the renderer and the service with its limiter
rvars == <<pc, template, context, template_config, doc_id, index, stack, heap,
           calls, returned, result>>
svars == <<clock, rate_limiter, admitted, threads, outcome>>
vars == <<rvars, svars>>

(***************************************************************************)
(* Bounds of the model.                                                    *)
(***************************************************************************)
MaxSections == 2      \* top-level sections of a template
MaxInner == 2         \* child sections of a loop

(***************************************************************************)
(* Python values held in a context.  A dict is its insertion-ordered       *)
(* sequence of <<key, value>> pairs.                                       *)
(***************************************************************************)
Str(s) == [t |-> "str", s |-> s]
None == [t |-> "none"]
List(xs) == [t |-> "list", xs |-> xs]
Dict(kv) == [t |-> "dict", kv |-> kv]
Undefined == [t |-> "undefined"]

DictHas(kv, k) == \E n \in 1..Len(kv) : kv[n][1] = k

\* dict.get(k): the value, or None
DictGet(kv, k) ==
    IF DictHas(kv, k)
    THEN kv[CHOOSE n \in 1..Len(kv) : kv[n][1] = k][2]
    ELSE None

\* d[k] = v: replaces the value in place, or appends the new key
DictSet(kv, k, v) ==
    IF DictHas(kv, k)
    THEN [n \in 1..Len(kv) |-> IF kv[n][1] = k THEN <<k, v>> ELSE kv[n]]
    ELSE Append(kv, <<k, v>>)

RECURSIVE Join(_, _)
Join(strs, sep) ==
    IF Len(strs) = 0 THEN ""
    ELSE IF Len(strs) = 1 THEN strs[1]
    ELSE strs[1] \o sep \o Join(Tail(strs), sep)

\* repr(value) as str() prints the elements of a list or dict
RECURSIVE Repr(_)
Repr(v) ==
    CASE v.t = "str" -> "'" \o v.s \o "'"
      [] v.t = "none" -> "None"
      [] v.t = "list" ->
            "[" \o Join([n \in 1..Len(v.xs) |-> Repr(v.xs[n])], ", ") \o "]"
      [] v.t = "dict" ->
            "{" \o Join([n \in 1..Len(v.kv) |->
                          "'" \o v.kv[n][1] \o "': " \o Repr(v.kv[n][2])], ", ")
                \o "}"
      [] OTHER -> ""

\* str(value) as Jinja2 writes the value of an expression
PyStr(v) ==
    CASE v.t = "str" -> v.s
      [] v.t = "undefined" -> ""
      [] OTHER -> Repr(v)

(***************************************************************************)
(* Strings of a template.  A string is a literal without braces ("lit"),   *)
(* one expression {{ path }} that Jinja2 substitutes ("var"; src is its    *)
(* source text), the same guarded by {% raw %} in the file ("raw"), a JSON *)
(* null ("null"), or a key the JSON object does not have ("absent").       *)
(***************************************************************************)
Lit(s) == [k |-> "lit", src |-> s, path |-> <<>>]
Var(src, path) == [k |-> "var", src |-> src, path |-> path]
Raw(src, path) == [k |-> "raw", src |-> src, path |-> path]
Null == [k |-> "null", src |-> "", path |-> <<>>]
Absent == [k |-> "absent", src |-> "", path |-> <<>>]

\* jinja2 Environment.getattr on one step of a dotted expression
JinjaGetattr(obj, part) ==
    IF obj.t = "dict" /\ DictHas(obj.kv, part) THEN DictGet(obj.kv, part)
    ELSE Undefined

RECURSIVE JinjaWalk(_, _)
JinjaWalk(obj, parts) ==
    IF Len(parts) = 0 THEN [ok |-> TRUE, v |-> obj]
    ELSE IF obj.t = "undefined" THEN [ok |-> FALSE, v |-> Undefined]
    ELSE JinjaWalk(JinjaGetattr(obj, Head(parts)), Tail(parts))

\* TemplateEngine.render_string on the expression {{ path }}:
\* [ok |-> FALSE] is the TemplateError it raises
render_string(path, ctx) ==
    LET root == IF DictHas(ctx, Head(path)) THEN DictGet(ctx, Head(path))
                ELSE Undefined
        r == JinjaWalk(root, Tail(path))
    IN  [ok |-> r.ok, s |-> IF r.ok THEN PyStr(r.v) ELSE ""]

\* mutant: an expression that fails to render resolves to the empty string
_resolve_variable_empty_on_error(value, ctx) ==
    CASE value.k = "null" -> ""
      [] value.k = "var" ->
            LET r == render_string(value.path, ctx)
            IN  IF r.ok THEN r.s ELSE ""
      [] OTHER -> value.src

\* DocumentRenderer._resolve_variable; an absent key is section.get's ""
_resolve_variable(value, ctx) ==
    CASE value.k = "null" -> ""
      [] value.k = "var" ->
            LET r == render_string(value.path, ctx)
            IN  IF r.ok THEN r.s ELSE value.src
      [] OTHER -> value.src

\* DocumentRenderer._get_nested_value; key is key.split(".")
RECURSIVE _get_nested_value(_, _)
_get_nested_value(value, parts) ==
    IF Len(parts) = 0 THEN value
    ELSE IF value.t = "dict"
         THEN LET v == DictGet(value.kv, Head(parts))
              IN  IF v.t = "none" THEN None
                  ELSE _get_nested_value(v, Tail(parts))
         ELSE None

(***************************************************************************)
(* Sections of a template.  A field absent from the JSON object holds the  *)
(* default that section.get(field, default) supplies.                      *)
(***************************************************************************)
DefaultLevel == 1
DefaultWidth == 400
DefaultHeight == 300

Section(type, text, level, path, width, height, condition, variable, item_name, sections) ==
    [type |-> type, text |-> text, level |-> level, path |-> path,
     width |-> width, height |-> height, condition |-> condition,
     variable |-> variable, item_name |-> item_name, sections |-> sections]

Heading(text, level) ==
    Section("heading", text, level, Absent, DefaultWidth, DefaultHeight,
            Absent, <<"">>, "item", <<>>)
Paragraph(text) ==
    Section("paragraph", text, DefaultLevel, Absent, DefaultWidth,
            DefaultHeight, Absent, <<"">>, "item", <<>>)
Image(path, width, height, condition) ==
    Section("image", Absent, DefaultLevel, path, width, height, condition,
            <<"">>, "item", <<>>)
Loop(variable, item_name, sections) ==
    Section("loop", Absent, DefaultLevel, Absent, DefaultWidth,
            DefaultHeight, Absent, variable, item_name, sections)
Other(type, text) ==
    Section(type, text, DefaultLevel, Absent, DefaultWidth, DefaultHeight,
            Absent, <<"">>, "item", <<>>)

(***************************************************************************)
(* The inputs: the caller's context, the files on disk, the template       *)
(* files.                                                                  *)
(***************************************************************************)
Item(name, rows) == Dict(<< <<"name", Str(name)>>, <<"rows", List(rows)>> >>)

Context ==
    << <<"title", Str("T")>>,
       <<"item", Str("old")>>,
       <<"items", List(<< Item("a", <<Str("x"), Str("y")>>),
                          Item("b", <<Str("z")>>) >>)>>,
       <<"empty", List(<<>>)>>,
       <<"meta", Dict(<< <<"k", Str("v")>> >>)>>,
       <<"image_path", Str("")>>,
       <<"none", None>> >>

\* paths for which Path(image_path).exists()
Files == {"/img.png"}

SeqUpTo(S, n) == UNION {[1..m -> S] : m \in 0..n}

ExprTitle == Var("{{ title }}", <<"title">>)
ExprImagePath == Var("{{ image_path }}", <<"image_path">>)
RawImagePath == Raw("{{ image_path }}", <<"image_path">>)
RawNone == Raw("{{ none }}", <<"none">>)
RawItem == Raw("{{ item }}", <<"item">>)
RawItemName == Raw("{{ item.name }}", <<"item", "name">>)

ParagraphItemName == Paragraph(RawItemName)
HeadingItemName == Heading(RawItemName, 2)
InnerLoop ==
    Loop(<<"item", "rows">>, "row", <<Paragraph(Raw("{{ row }}", <<"row">>))>>)

\* the sections that templates combine in every order
CoreLeaves ==
    { Heading(Lit("Hi"), 1),
      Paragraph(Lit("World")),
      Image(Lit("/img.png"), 500, 300, Absent),
      Image(Lit("/nonexistent/path/image.png"), 500, 300, Absent),
      Other("table", Lit("cells")) }

CoreLoops ==
    { Loop(<<"items">>, "item", ch) :
        ch \in SeqUpTo({ParagraphItemName, HeadingItemName}, MaxInner) }

\* the sections that templates hold alone and before a heading
OtherLeaves ==
    { Heading(ExprTitle, 2),
      Heading(Lit(""), 1),
      Heading(Lit("Hi"), 7),
      Paragraph(RawItem),
      Paragraph(Raw("{{ row.x }}", <<"row", "x">>)),
      Paragraph(Lit("")),
      Paragraph(Null),
      Image(ExprImagePath, 500, 300, ExprImagePath),
      Image(Lit("/img.png"), 500, 300, ExprImagePath),
      Image(Lit("/img.png"), 500, 300, RawImagePath),
      Image(Lit("/img.png"), 500, 300, RawNone),
      Image(Lit("/img.png"), 500, 300, Lit("")),
      Image(Lit("/img.png"), 500, 300, Null),
      Image(RawNone, 500, 300, Absent),
      Image(RawImagePath, 500, 300, Absent),
      Image(Lit("/img.png"), DefaultWidth, DefaultHeight, ExprTitle) }

OtherLoops ==
    { Loop(v, "item", <<ParagraphItemName>>) :
        v \in {<<"missing">>, <<"title">>, <<"empty">>, <<"none">>,
               <<"items", "name">>, <<"meta", "k">>, <<"">>} }
    \cup
    { Loop(<<"meta">>, "item", <<Paragraph(RawItem)>>) }
    \cup
    { Loop(<<"items">>, "item", ch) :
        ch \in {<<InnerLoop>>, <<ParagraphItemName, InnerLoop>>,
                <<InnerLoop, InnerLoop>>} }
    \cup
    { Loop(<<"items">>, "item", <<InnerLoop, Image(Lit("/img.png"), 500, 300, Absent)>>),
      Loop(<<"items">>, "entry", <<HeadingItemName, Paragraph(Raw("{{ entry.name }}", <<"entry", "name">>))>>),
      Loop(<<"items">>, "title", <<Paragraph(Raw("{{ title.name }}", <<"title", "name">>)),
                                   Paragraph(RawItem)>>) }

TemplateFile(kind, title, sections) ==
    [kind |-> kind, title |-> title, sections |-> sections]

\* kind "ok" is a file Jinja2 renders to JSON text; the others are a name with
\* no file, a file with a Jinja2 syntax error, and a file that is not JSON
Templates ==
    { TemplateFile("ok", ExprTitle, ss) :
        ss \in SeqUpTo(CoreLeaves \cup CoreLoops, MaxSections) }
    \cup
    { TemplateFile("ok", Lit("Doc"), ss) :
        ss \in UNION { {<<s>>, <<s, Paragraph(RawItem)>>} :
                       s \in OtherLeaves \cup OtherLoops } }
    \cup
    { TemplateFile(k, Lit(""), <<>>) : k \in {"missing", "syntax", "badjson"} }
    \cup
    { TemplateFile("ok", Lit("Doc"), <<Paragraph(Var("{{ row.x }}", <<"row", "x">>))>>) }

DocIds == {"test_doc_id", "doc2"}

(***************************************************************************)
(* TemplateEngine.render_template followed by json.loads: Jinja2           *)
(* substitutes every unguarded expression of the file against the context  *)
(* before the text is parsed; a guarded one reaches the section as written.*)
(***************************************************************************)
RenderedText(t, ctx) ==
    CASE t.k = "var" -> Lit(render_string(t.path, ctx).s)
      [] t.k = "raw" -> Var(t.src, t.path)
      [] OTHER -> t

TextRaises(t, ctx) == t.k = "var" /\ ~render_string(t.path, ctx).ok

RECURSIVE RenderedSections(_, _)
RenderedSections(ss, ctx) ==
    [n \in 1..Len(ss) |->
        [ss[n] EXCEPT !.text = RenderedText(ss[n].text, ctx),
                      !.path = RenderedText(ss[n].path, ctx),
                      !.condition = RenderedText(ss[n].condition, ctx),
                      !.sections = RenderedSections(ss[n].sections, ctx)]]

RECURSIVE SectionsRaise(_, _)
SectionsRaise(ss, ctx) ==
    \E n \in 1..Len(ss) :
        \/ TextRaises(ss[n].text, ctx)
        \/ TextRaises(ss[n].path, ctx)
        \/ TextRaises(ss[n].condition, ctx)
        \/ SectionsRaise(ss[n].sections, ctx)

NoConfig == [title |-> Lit(""), sections |-> <<>>]

\* mutant: text that json.loads rejects is taken for an empty configuration
LoadTemplate_accepts_bad_json(file, ctx) ==
    IF \/ file.kind \in {"missing", "syntax"}
       \/ TextRaises(file.title, ctx)
       \/ SectionsRaise(file.sections, ctx)
    THEN [ok |-> FALSE, config |-> NoConfig]
    ELSE [ok |-> TRUE,
          config |-> [title |-> RenderedText(file.title, ctx),
                      sections |-> RenderedSections(file.sections, ctx)]]

\* steps 1 and 2 of render_to_docs: the parsed template_config, or TemplateError
LoadTemplate(file, ctx) ==
    IF \/ file.kind # "ok"
       \/ TextRaises(file.title, ctx)
       \/ SectionsRaise(file.sections, ctx)
    THEN [ok |-> FALSE, config |-> NoConfig]
    ELSE [ok |-> TRUE,
          config |-> [title |-> RenderedText(file.title, ctx),
                      sections |-> RenderedSections(file.sections, ctx)]]

(***************************************************************************)
(* Calls on docs_service (GoogleDocsServiceProtocol).  `ret` is the value  *)
(* the service returned, `at` the place of the issuing section: its        *)
(* position in each enclosing section list, preceded inside a loop by the  *)
(* number of the item.                                                     *)
(***************************************************************************)
Call(op, doc, text, idx, end, level, path, width, height) ==
    [op |-> op, doc |-> doc, text |-> text, index |-> idx, end |-> end,
     level |-> level, path |-> path, width |-> width, height |-> height,
     ret |-> "", at |-> <<>>]

create_document(title) == Call("create_document", "", title, 0, 0, 0, "", 0, 0)
insert_text(doc, text, idx) == Call("insert_text", doc, text, idx, 0, 0, "", 0, 0)
apply_heading_style(doc, start, end, level) ==
    Call("apply_heading_style", doc, "", start, end, level, "", 0, 0)
insert_image(doc, path, idx, width, height) ==
    Call("insert_image", doc, "", idx, 0, 0, path, width, height)
get_document_url(doc) == Call("get_document_url", doc, "", 0, 0, 0, "", 0, 0)

\* GoogleDocsService.get_document_url
DocumentUrl(doc) == "https://docs.google.com/document/d/" \o doc \o "/edit"

\* mutant: the cursor starts at offset 0
StartIndex_zero == 1 - 1

\* render_to_docs: `index = 1  # Start after the title`
StartIndex == 1

\* mutant: the returned cursor counts one unit more than was sent
_insert_text_off_by_one(doc, text, idx) ==
    IF text = "" THEN [calls |-> <<>>, index |-> idx]
    ELSE [calls |-> <<insert_text(doc, text, idx)>>, index |-> idx + Len(text) + 1]

\* DocumentRenderer._insert_text
_insert_text(doc, text, idx) ==
    IF text = "" THEN [calls |-> <<>>, index |-> idx]
    ELSE [calls |-> <<insert_text(doc, text, idx)>>, index |-> idx + Len(text)]

\* mutant: the returned cursor forgets the newline that was inserted
_insert_heading_forgets_newline(doc, text, level, idx) ==
    IF text = "" THEN [calls |-> <<>>, index |-> idx]
    ELSE [calls |-> <<insert_text(doc, text \o "\n", idx),
                      apply_heading_style(doc, idx, idx + Len(text), level)>>,
          index |-> idx + Len(text)]

\* mutant: the style range runs over the trailing newline
_insert_heading_styles_newline(doc, text, level, idx) ==
    IF text = "" THEN [calls |-> <<>>, index |-> idx]
    ELSE [calls |-> <<insert_text(doc, text \o "\n", idx),
                      apply_heading_style(doc, idx, idx + Len(text) + 1, level)>>,
          index |-> idx + Len(text) + 1]

\* mutant: the style is applied before the text is inserted
_insert_heading_style_first(doc, text, level, idx) ==
    IF text = "" THEN [calls |-> <<>>, index |-> idx]
    ELSE [calls |-> <<apply_heading_style(doc, idx, idx + Len(text), level),
                      insert_text(doc, text \o "\n", idx)>>,
          index |-> idx + Len(text) + 1]

\* DocumentRenderer._insert_heading
_insert_heading(doc, text, level, idx) ==
    IF text = "" THEN [calls |-> <<>>, index |-> idx]
    ELSE LET full_text == text \o "\n"
             start_index == idx
             end_index == idx + Len(text)
         IN  [calls |-> <<insert_text(doc, full_text, idx),
                          apply_heading_style(doc, start_index, end_index, level)>>,
              index |-> idx + Len(full_text)]

\* mutant: an image is counted as two offsets (the image and a newline)
_insert_image_two_units(doc, image_path, width, height, idx) ==
    IF image_path \notin Files THEN [calls |-> <<>>, index |-> idx]
    ELSE [calls |-> <<insert_image(doc, image_path, idx, width, height)>>,
          index |-> idx + 2]

\* DocumentRenderer._insert_image
_insert_image(doc, image_path, width, height, idx) ==
    IF image_path \notin Files THEN [calls |-> <<>>, index |-> idx]
    ELSE [calls |-> <<insert_image(doc, image_path, idx, width, height)>>,
          index |-> idx + 1]

\* `if condition:` on condition = section.get("condition", "")
Truthy(value) == value.k \notin {"null", "absent"} /\ value.src # ""

\* the image branch of _render_section
RenderImageSection(doc, section, idx, ctx) ==
    LET condition == section.condition
        resolved_condition == _resolve_variable(condition, ctx)
        image_path == _resolve_variable(section.path, ctx)
    IN  IF /\ Truthy(condition)
           /\ (resolved_condition = "" \/ resolved_condition = "None")
        THEN [calls |-> <<>>, index |-> idx]
        ELSE IF image_path = "" \/ image_path = "None"
        THEN [calls |-> <<>>, index |-> idx]
        ELSE _insert_image(doc, image_path, section.width, section.height, idx)

\* mutant: an unknown type is rendered as a paragraph
SectionBranch_default_paragraph(section_type) ==
    IF section_type \in {"heading", "image", "loop"}
    THEN section_type
    ELSE "paragraph"

\* the branch of _render_section that section_type selects
SectionBranch(section_type) ==
    IF section_type \in {"heading", "paragraph", "image", "loop"}
    THEN section_type
    ELSE "skip"

\* mutant: any non-empty collection is iterated
IsIterable_any_collection(items) ==
    \/ items.t = "list" /\ Len(items.xs) > 0
    \/ items.t = "dict" /\ Len(items.kv) > 0

\* `not items or not isinstance(items, list)` is false
IsIterable(items) == items.t = "list" /\ Len(items.xs) > 0

\* what `for item in items` iterates: the elements of a list, the keys of a dict
Iterate(items) ==
    CASE items.t = "list" -> items.xs
      [] items.t = "dict" -> [n \in 1..Len(items.kv) |-> Str(items.kv[n][1])]
      [] OTHER -> <<>>

\* mutant: every iteration binds the first item
LoopItem_first(items, i) == items[1]

\* the item the for loop binds in iteration i
LoopItem(items, i) == items[i]

\* mutant: the binding is written into the caller's dict (no copy)
BindLoopItem_no_copy(h, ctx, item_name, item) ==
    [heap |-> [h EXCEPT ![ctx] = DictSet(h[ctx], item_name, item)], id |-> ctx]

\* loop_context = context.copy(); loop_context[item_name] = item
BindLoopItem(h, ctx, item_name, item) ==
    [heap |-> Append(h, DictSet(h[ctx], item_name, item)), id |-> Len(h) + 1]

(***************************************************************************)
(* The walk.  A frame is one active for-loop: the loop over the top-level  *)
(* sections in render_to_docs ("top") or the loop branch of one            *)
(* _render_section call ("loop").  j counts the sections of the list that  *)
(* have returned, i is the number of the current item; index0 and sent0    *)
(* are the cursor and the units sent when the call was entered.            *)
(***************************************************************************)
Frame(kind, sections, items, i, item_name, ctx, loop_context, index0, sent0) ==
    [kind |-> kind, sections |-> sections, j |-> 0, items |-> items, i |-> i,
     item_name |-> item_name, context |-> ctx, loop_context |-> loop_context,
     index0 |-> index0, sent0 |-> sent0]

RECURSIVE Units(_)
\* content units sent to insert_text / insert_image
Units(cs) ==
    IF Len(cs) = 0 THEN 0
    ELSE Units(SubSeq(cs, 1, Len(cs) - 1)) +
         (CASE cs[Len(cs)].op = "insert_text" -> Len(cs[Len(cs)].text)
            [] cs[Len(cs)].op = "insert_image" -> 1
            [] OTHER -> 0)

NoReturn == [type |-> "", index |-> 0, new_index |-> 0, sent |-> 0]

Top == stack[Len(stack)]
Running == pc = "sections" /\ Len(stack) > 0 /\ Top.j < Len(Top.sections)
Cur == Top.sections[Top.j + 1]

RECURSIVE Place(_)
Place(st) ==
    IF Len(st) = 0 THEN <<>>
    ELSE Place(SubSeq(st, 1, Len(st) - 1)) \o
         (IF st[Len(st)].kind = "loop"
          THEN <<st[Len(st)].i, st[Len(st)].j + 1>>
          ELSE <<st[Len(st)].j + 1>>)

Issued(cs) == [n \in 1..Len(cs) |-> [cs[n] EXCEPT !.at = Place(stack)]]

\* the current section returns r.index after issuing r.calls
Return(r) ==
    /\ calls' = calls \o Issued(r.calls)
    /\ index' = r.index
    /\ stack' = [stack EXCEPT ![Len(stack)].j = @ + 1]
    /\ returned' = [type |-> Cur.type, index |-> index, new_index |-> r.index,
                    sent |-> Units(r.calls)]
    /\ UNCHANGED <<svars, pc, template, context, template_config, doc_id, heap, result>>

(***************************************************************************)
(* RateLimiter.  Time is counted in whole seconds; calls is the list of    *)
(* the timestamps the limiter holds, in the order they were appended.      *)
(***************************************************************************)
MaxCalls == 2         \* largest max_calls a limiter is constructed with
MaxPeriod == 2        \* largest period_seconds
MaxClock == 4         \* the clock is observed up to this time
MaxLate == 1          \* seconds by which a sleep or a clock read comes late

DefaultMaxCalls == 50
DefaultPeriod == 60

\* RateLimiter.__init__
RateLimiter(max_calls, period_seconds) ==
    [max_calls |-> max_calls, period |-> period_seconds, calls |-> <<>>]

\* mutant: a timestamp exactly period old is kept
Recent_keeps_boundary(ts, now, period) ==
    SelectSeq(ts, LAMBDA t : now - t <= period)

\* [t for t in self.calls if now - t < self.period]
Recent(ts, now, period) == SelectSeq(ts, LAMBDA t : now - t < period)

\* min(self.calls)
Oldest(ts) == CHOOSE t \in {ts[n] : n \in 1..Len(ts)} :
                 \A n \in 1..Len(ts) : t <= ts[n]

\* wait_time = self.period - (now - oldest_call)
WaitTime(ts, now, period) == period - (now - Oldest(ts))

\* mutant: the sleep ends one second before the oldest call expires
wait_if_needed_sleeps_short(lim, now, over, late) ==
    LET recent == Recent(lim.calls, now, lim.period)
        at_limit == Len(recent) >= lim.max_calls
        wait_time == IF at_limit THEN WaitTime(recent, now, lim.period) ELSE 0
        now2 == IF wait_time > 0 THEN now + wait_time - 1 ELSE now
        recent2 == IF wait_time > 0 THEN Recent(recent, now2, lim.period)
                   ELSE recent
    IN  [limiter |-> [lim EXCEPT !.calls = Append(recent2, now2 + late)],
         clock |-> now2 + late,
         recorded |-> now2 + late,
         sleeps |-> IF wait_time > 0 THEN <<wait_time>> ELSE <<>>]

\* mutant: a full window is purged but never waited for
wait_if_needed_never_blocks(lim, now, over, late) ==
    LET recent == Recent(lim.calls, now, lim.period)
    IN  [limiter |-> [lim EXCEPT !.calls = Append(recent, now + late)],
         clock |-> now + late,
         recorded |-> now + late,
         sleeps |-> <<>>]

\* RateLimiter.wait_if_needed for a caller that runs alone.  time.sleep
\* returns `over` seconds late and the last time.time() is read `late`
\* seconds after the previous one.
wait_if_needed(lim, now, over, late) ==
    LET recent == Recent(lim.calls, now, lim.period)
        at_limit == Len(recent) >= lim.max_calls
        wait_time == IF at_limit THEN WaitTime(recent, now, lim.period) ELSE 0
        now2 == IF wait_time > 0 THEN now + wait_time + over ELSE now
        recent2 == IF wait_time > 0 THEN Recent(recent, now2, lim.period)
                   ELSE recent
    IN  [limiter |-> [lim EXCEPT !.calls = Append(recent2, now2 + late)],
         clock |-> now2 + late,
         recorded |-> now2 + late,
         sleeps |-> IF wait_time > 0 THEN <<wait_time>> ELSE <<>>]

\* mutant: expired timestamps are counted too
remaining_calls_counts_expired(lim, now) ==
    IF lim.max_calls - Len(lim.calls) > 0
    THEN lim.max_calls - Len(lim.calls) ELSE 0

\* RateLimiter.remaining_calls
remaining_calls(lim, now) ==
    LET recent_calls == Recent(lim.calls, now, lim.period)
    IN  IF lim.max_calls - Len(recent_calls) > 0
        THEN lim.max_calls - Len(recent_calls) ELSE 0

\* RateLimiter.reset
reset(lim) == [lim EXCEPT !.calls = <<>>]

(***************************************************************************)
(* What the latest operation on the service or its limiter did: its        *)
(* arguments, the value returned (value, or n for a number) or the         *)
(* exception raised (error, and the exception it was raised from), the     *)
(* remote invocations it made and the seconds of each time.sleep it took.  *)
(***************************************************************************)
Outcome(op, args, kind, value, n, error, cause, invocations, sleeps) ==
    [op |-> op, args |-> args, kind |-> kind, value |-> value, n |-> n,
     error |-> error, cause |-> cause, invocations |-> invocations,
     sleeps |-> sleeps]

NoCause == [kind |-> "none", id |-> "", status |-> 0]

NoOutcome == Outcome("", <<>>, "none", "", 0, "", NoCause, <<>>, <<>>)

(***************************************************************************)
(* The remote side.  One execute() of a request answers with a response    *)
(* body (id is its documentId or file id, "" when the body lacks one),     *)
(* raises HttpError with a status, or raises an error of the transport.    *)
(* A script gives the answer to each attempt of one remote call.           *)
(***************************************************************************)
Ok(id) == [kind |-> "ok", id |-> id, status |-> 200]
HttpError(status) == [kind |-> "HttpError", id |-> "", status |-> status]
ConnectionError == [kind |-> "ConnectionError", id |-> "", status |-> 0]

Responses ==
    {Ok("test_doc_id"), Ok(""), HttpError(400), HttpError(429), HttpError(500),
     ConnectionError}

\* retry(stop=stop_after_attempt(3), ...)
StopAfterAttempt == 3
\* wait_exponential(multiplier=1, min=4, max=60)
WaitMultiplier == 1
WaitMin == 4
WaitMax == 60

Scripts == [1..StopAfterAttempt -> Responses]

\* requests of documents.batchUpdate
Request(kind, idx, end, text, style, width, height) ==
    [kind |-> kind, index |-> idx, end |-> end, text |-> text, style |-> style,
     width |-> width, height |-> height]
InsertText(idx, text) == Request("insertText", idx, 0, text, "", 0, 0)
UpdateParagraphStyle(start, end, style) ==
    Request("updateParagraphStyle", start, end, "", style, 0, 0)
InsertInlineImage(idx, uri, width, height) ==
    Request("insertInlineImage", idx, 0, uri, "", width, height)

\* heading_types of apply_heading_style
HeadingTypes ==
    <<"HEADING_1", "HEADING_2", "HEADING_3", "HEADING_4", "HEADING_5",
      "HEADING_6">>

(***************************************************************************)
(* The state an operation of GoogleDocsService works on: the limiter and   *)
(* the clock, and the logs of what it did (timestamps recorded, remote     *)
(* invocations, sleeps).  A result is a return or a raise with that state. *)
(***************************************************************************)
ServiceState(lim, now) ==
    [limiter |-> lim, clock |-> now, recorded |-> <<>>, invocations |-> <<>>,
     sleeps |-> <<>>]

Returns(st, value, n) ==
    [kind |-> "return", value |-> value, n |-> n, error |-> "",
     cause |-> NoCause, st |-> st]
Raises(st, error, cause) ==
    [kind |-> "raise", value |-> "", n |-> 0, error |-> error,
     cause |-> cause, st |-> st]

\* self.rate_limiter.wait_if_needed() inside an operation
Limited(st) ==
    LET w == wait_if_needed(st.limiter, st.clock, 0, 0)
    IN  [st EXCEPT !.limiter = w.limiter,
                   !.clock = w.clock,
                   !.recorded = Append(@, w.recorded),
                   !.sleeps = @ \o w.sleeps]

\* <api>(...).execute() answered by resp; slots is the number of
\* wait_if_needed calls the operation has made when the request goes out
Executed(st, api, body, resp) ==
    [st EXCEPT !.invocations =
        Append(@, [api |-> api, body |-> body, response |-> resp,
                   slots |-> Len(st.recorded)])]

\* mutant: the function under @retry goes to the remote side directly
Attempt_unlimited(st, api, body, resp) ==
    LET st1 == Executed(st, api, body, resp)
    IN  IF resp.kind # "ok" THEN Raises(st1, resp.kind, resp)
        ELSE IF api = "documents.create" /\ resp.id = ""
        THEN Raises(st1,
                "GoogleDocsError: Failed to get document ID from response",
                NoCause)
        ELSE Returns(st1, resp.id, 0)

\* one call of the function under @retry: the limiter, the remote call, and
\* for documents.create the check of documentId
Attempt(st, api, body, resp) ==
    LET st1 == Executed(Limited(st), api, body, resp)
    IN  IF resp.kind # "ok" THEN Raises(st1, resp.kind, resp)
        ELSE IF api = "documents.create" /\ resp.id = ""
        THEN Raises(st1,
                "GoogleDocsError: Failed to get document ID from response",
                NoCause)
        ELSE Returns(st1, resp.id, 0)

RECURSIVE Pow2(_)
Pow2(n) == IF n = 0 THEN 1 ELSE 2 * Pow2(n - 1)

\* tenacity wait_exponential: the wait after attempt number attempt_number
wait_exponential(attempt_number) ==
    LET exp == WaitMultiplier * Pow2(attempt_number - 1)
        capped == IF exp < WaitMax THEN exp ELSE WaitMax
    IN  IF capped > WaitMin THEN capped ELSE WaitMin

\* retry_if_exception_type(HttpError)
retry_if_exception_type(r) == r.kind = "raise" /\ r.error = "HttpError"

RECURSIVE Retrying(_, _, _, _, _)

\* mutant: the policy gives up after the second attempt
Retrying_two_attempts(st, api, body, script, attempt_number) ==
    LET r == Attempt(st, api, body, script[attempt_number])
    IN  IF retry_if_exception_type(r) /\ attempt_number < StopAfterAttempt - 1
        THEN LET wait == wait_exponential(attempt_number)
             IN  Retrying([r.st EXCEPT !.clock = @ + wait,
                                       !.sleeps = Append(@, wait)],
                          api, body, script, attempt_number + 1)
        ELSE r

\* the @retry wrapper (tenacity, reraise=True): the function is called again
\* after an HttpError until stop_after_attempt; the last outcome is returned
\* or re-raised
Retrying(st, api, body, script, attempt_number) ==
    LET r == Attempt(st, api, body, script[attempt_number])
    IN  IF retry_if_exception_type(r) /\ attempt_number < StopAfterAttempt
        THEN LET wait == wait_exponential(attempt_number)
             IN  Retrying([r.st EXCEPT !.clock = @ + wait,
                                       !.sleeps = Append(@, wait)],
                          api, body, script, attempt_number + 1)
        ELSE r

\* GoogleDocsService._create_document_with_retry
_create_document_with_retry(st, title, script) ==
    Retrying(st, "documents.create", <<title>>, script, 1)

\* GoogleDocsService._batch_update_with_retry
_batch_update_with_retry(st, doc, requests, script) ==
    Retrying(st, "documents.batchUpdate", requests, script, 1)

\* mutant: an HttpError leaves the operation as it is
Surfaced_leaks_http_error(r, http_message, other_message) ==
    IF r.kind = "return" THEN r
    ELSE IF r.error = "HttpError" THEN r
    ELSE IF r.cause = NoCause THEN r
    ELSE Raises(r.st, "GoogleDocsError: " \o other_message, r.cause)

\* the except clauses of create_document, batch_update and insert_image
Surfaced(r, http_message, other_message) ==
    IF r.kind = "return" THEN r
    ELSE IF r.error = "HttpError"
    THEN Raises(r.st, "GoogleDocsError: " \o http_message, r.cause)
    ELSE IF r.cause = NoCause THEN r
    ELSE Raises(r.st, "GoogleDocsError: " \o other_message, r.cause)

\* GoogleDocsService.create_document
service_create_document(st, title, script) ==
    Surfaced(_create_document_with_retry(st, title, script),
             "Failed to create document", "Unexpected error creating document")

\* GoogleDocsService.batch_update
service_batch_update(st, doc, requests, script) ==
    IF requests = <<>> THEN Returns(st, "", 0)
    ELSE Surfaced(_batch_update_with_retry(st, doc, requests, script),
                  "Batch update failed", "Unexpected error in batch update")

\* GoogleDocsService.insert_text
service_insert_text(st, doc, text, idx, script) ==
    IF text = "" THEN Returns(st, "", idx)
    ELSE LET r == service_batch_update(st, doc, <<InsertText(idx, text)>>, script)
         IN  IF r.kind = "raise" THEN r
             ELSE Returns(r.st, "", idx + Len(text))

\* mutant: the level is looked at only after the request was sent
service_apply_heading_style_checks_late(st, doc, start, end, level, script) ==
    LET style == IF level \in 1..6 THEN HeadingTypes[level] ELSE ""
        r == service_batch_update(st, doc,
                <<UpdateParagraphStyle(start, end, style)>>, script)
    IN  IF ~(1 <= level /\ level <= 6)
        THEN Raises(r.st, "ValueError", NoCause)
        ELSE r

\* GoogleDocsService.apply_heading_style
service_apply_heading_style(st, doc, start, end, level, script) ==
    IF ~(1 <= level /\ level <= 6)
    THEN Raises(st, "ValueError", NoCause)
    ELSE service_batch_update(st, doc,
            <<UpdateParagraphStyle(start, end, HeadingTypes[level])>>, script)

\* mutant: a failed permission grant is ignored and the image is inserted
service_insert_image_ignores_permission(st, doc, image_path, idx, width, height, upload, permission, script) ==
    IF image_path \notin Files
    THEN Raises(st, "GoogleDocsError: Image file not found", NoCause)
    ELSE
    LET st1 == Executed(Limited(st), "files.create", <<image_path>>, upload)
        st2 == Executed(Limited(st1), "permissions.create", <<upload.id>>,
                        permission)
        failed(at, resp) ==
            IF resp.kind = "HttpError"
            THEN Raises(at, "GoogleDocsError: Failed to insert image", resp)
            ELSE Raises(at, "GoogleDocsError: Unexpected error inserting image",
                        resp)
    IN  IF upload.kind # "ok" THEN failed(st1, upload)
        ELSE IF upload.id = ""
        THEN Raises(st1, "GoogleDocsError: Failed to get file ID after upload",
                    NoCause)
        ELSE LET r == service_batch_update(st2, doc,
                        <<InsertInlineImage(idx,
                             "https://drive.google.com/uc?id=" \o upload.id,
                             width, height)>>, script)
             IN  IF r.kind = "raise" THEN r
                 ELSE Returns(r.st, "", idx + 1)

\* GoogleDocsService.insert_image: upload and permission answer the two
\* calls on the Drive service, script the batch update
service_insert_image(st, doc, image_path, idx, width, height, upload, permission, script) ==
    IF image_path \notin Files
    THEN Raises(st, "GoogleDocsError: Image file not found", NoCause)
    ELSE
    LET st1 == Executed(Limited(st), "files.create", <<image_path>>, upload)
        st2 == Executed(Limited(st1), "permissions.create", <<upload.id>>,
                        permission)
        failed(at, resp) ==
            IF resp.kind = "HttpError"
            THEN Raises(at, "GoogleDocsError: Failed to insert image", resp)
            ELSE Raises(at, "GoogleDocsError: Unexpected error inserting image",
                        resp)
    IN  IF upload.kind # "ok" THEN failed(st1, upload)
        ELSE IF upload.id = ""
        THEN Raises(st1, "GoogleDocsError: Failed to get file ID after upload",
                    NoCause)
        ELSE IF permission.kind # "ok" THEN failed(st2, permission)
        ELSE LET r == service_batch_update(st2, doc,
                        <<InsertInlineImage(idx,
                             "https://drive.google.com/uc?id=" \o upload.id,
                             width, height)>>, script)
             IN  IF r.kind = "raise" THEN r
                 ELSE Returns(r.st, "", idx + 1)

\* GoogleDocsService.__init__ and a clock that starts at 0
IdleService ==
    /\ clock = 0
    /\ rate_limiter = RateLimiter(DefaultMaxCalls, DefaultPeriod)
    /\ admitted = <<>>
    /\ threads = <<>>
    /\ outcome = NoOutcome

Init ==
    /\ pc = "start"
    /\ template \in Templates
    /\ context = 1
    /\ heap = <<Context>>
    /\ template_config = NoConfig
    /\ doc_id = ""
    /\ index = 0
    /\ stack = <<>>
    /\ calls = <<>>
    /\ returned = NoReturn
    /\ result = [kind |-> "none", value |-> ""]
    /\ IdleService

\* render_to_docs, steps 1 and 2
RenderTemplate ==
    /\ pc = "start"
    /\ LET r == LoadTemplate(template, heap[context])
       IN  IF r.ok
           THEN /\ template_config' = r.config
                /\ pc' = "create"
                /\ UNCHANGED result
           ELSE /\ pc' = "raised"
                /\ result' = [kind |-> "raise", value |-> "TemplateError"]
                /\ UNCHANGED template_config
    /\ UNCHANGED <<svars, template, context, doc_id, index, stack, heap, calls, returned>>

\* render_to_docs, step 3, and the cursor's first value
CreateDocument ==
    /\ pc = "create"
    /\ \E id \in DocIds :
        /\ doc_id' = id
        /\ calls' = Append(calls,
                [create_document(_resolve_variable(template_config.title, heap[context]))
                    EXCEPT !.ret = id])
        /\ index' = StartIndex
        /\ stack' = <<Frame("top", template_config.sections, <<>>, 0, "",
                            context, context, StartIndex, 0)>>
        /\ pc' = "sections"
    /\ UNCHANGED <<svars, template, context, template_config, heap, returned, result>>

RenderHeading ==
    /\ Running
    /\ SectionBranch(Cur.type) = "heading"
    /\ Return(_insert_heading(doc_id,
                 _resolve_variable(Cur.text, heap[Top.loop_context]),
                 Cur.level, index))

RenderParagraph ==
    /\ Running
    /\ SectionBranch(Cur.type) = "paragraph"
    /\ Return(_insert_text(doc_id,
                 _resolve_variable(Cur.text, heap[Top.loop_context]), index))

RenderImage ==
    /\ Running
    /\ SectionBranch(Cur.type) = "image"
    /\ Return(RenderImageSection(doc_id, Cur, index, heap[Top.loop_context]))

RenderUnknown ==
    /\ Running
    /\ SectionBranch(Cur.type) = "skip"
    /\ Return([calls |-> <<>>, index |-> index])

\* the loop branch up to the first iteration, or its early return
RenderLoop ==
    /\ Running
    /\ SectionBranch(Cur.type) = "loop"
    /\ LET items == _get_nested_value(Dict(heap[Top.loop_context]), Cur.variable)
       IN  IF ~IsIterable(items)
           THEN Return([calls |-> <<>>, index |-> index])
           ELSE LET b == BindLoopItem(heap, Top.loop_context, Cur.item_name,
                                      LoopItem(Iterate(items), 1))
                IN  /\ heap' = b.heap
                    /\ stack' = Append(stack,
                          Frame("loop", Cur.sections, Iterate(items), 1, Cur.item_name,
                                Top.loop_context, b.id, index, Units(calls)))
                    /\ UNCHANGED <<svars, pc, template, context, template_config,
                                   doc_id, index, calls, returned, result>>

\* the inner sections of one item are done: the for loop takes the next item
LoopNextItem ==
    /\ pc = "sections" /\ Len(stack) > 0
    /\ Top.kind = "loop"
    /\ Top.j = Len(Top.sections)
    /\ Top.i < Len(Top.items)
    /\ LET b == BindLoopItem(heap, Top.context, Top.item_name,
                             LoopItem(Top.items, Top.i + 1))
       IN  /\ heap' = b.heap
           /\ stack' = [stack EXCEPT ![Len(stack)].i = @ + 1,
                                     ![Len(stack)].j = 0,
                                     ![Len(stack)].loop_context = b.id]
    /\ UNCHANGED <<svars, pc, template, context, template_config, doc_id, index,
                   calls, returned, result>>

\* the items are exhausted: the loop section returns the cursor
LoopReturn ==
    /\ pc = "sections" /\ Len(stack) > 0
    /\ Top.kind = "loop"
    /\ Top.j = Len(Top.sections)
    /\ Top.i = Len(Top.items)
    /\ stack' = [SubSeq(stack, 1, Len(stack) - 1)
                    EXCEPT ![Len(stack) - 1].j = @ + 1]
    /\ returned' = [type |-> "loop", index |-> Top.index0, new_index |-> index,
                    sent |-> Units(calls) - Top.sent0]
    /\ UNCHANGED <<svars, pc, template, context, template_config, doc_id, index,
                   heap, calls, result>>

\* render_to_docs, step 5
GetDocumentUrl ==
    /\ pc = "sections" /\ Len(stack) > 0
    /\ Top.kind = "top"
    /\ Top.j = Len(Top.sections)
    /\ calls' = Append(calls,
            [get_document_url(doc_id) EXCEPT !.ret = DocumentUrl(doc_id)])
    /\ result' = [kind |-> "return", value |-> DocumentUrl(doc_id)]
    /\ pc' = "done"
    /\ stack' = <<>>
    /\ UNCHANGED <<svars, template, context, template_config, doc_id, index, heap,
                   returned>>

Next ==
    \/ RenderTemplate
    \/ CreateDocument
    \/ RenderHeading
    \/ RenderParagraph
    \/ RenderImage
    \/ RenderUnknown
    \/ RenderLoop
    \/ LoopNextItem
    \/ LoopReturn
    \/ GetDocumentUrl

Spec == Init /\ [][Next]_vars

(***************************************************************************)
(* One caller using a RateLimiter: wait_if_needed, remaining_calls and     *)
(* reset at times that never decrease.  The renderer is not running.       *)
(***************************************************************************)
IdleRenderer ==
    /\ pc = "idle"
    /\ template = TemplateFile("missing", Lit(""), <<>>)
    /\ context = 1
    /\ heap = <<Context>>
    /\ template_config = NoConfig
    /\ doc_id = ""
    /\ index = 0
    /\ stack = <<>>
    /\ calls = <<>>
    /\ returned = NoReturn
    /\ result = [kind |-> "none", value |-> ""]

LimiterInit ==
    /\ IdleRenderer
    /\ clock = 0
    /\ \E max_calls \in 1..MaxCalls, period_seconds \in 1..MaxPeriod :
          rate_limiter = RateLimiter(max_calls, period_seconds)
    /\ admitted = <<>>
    /\ threads = <<>>
    /\ outcome = NoOutcome

\* time passes between two calls
Tick ==
    /\ clock < MaxClock
    /\ clock' = clock + 1
    /\ UNCHANGED <<rvars, rate_limiter, admitted, threads, outcome>>

WaitIfNeeded ==
    \E over \in 0..MaxLate, late \in 0..MaxLate :
        LET r == wait_if_needed(rate_limiter, clock, over, late)
        IN  /\ r.clock <= MaxClock
            /\ rate_limiter' = r.limiter
            /\ clock' = r.clock
            /\ admitted' = Append(admitted, r.recorded)
            /\ outcome' = Outcome("wait_if_needed", <<>>, "return", "", 0, "",
                                  NoCause, <<>>, r.sleeps)
            /\ UNCHANGED <<rvars, threads>>

RemainingCalls ==
    /\ outcome' = Outcome("remaining_calls", <<>>, "return", "",
                          remaining_calls(rate_limiter, clock), "", NoCause,
                          <<>>, <<>>)
    /\ UNCHANGED <<rvars, clock, rate_limiter, admitted, threads>>

\* reset forgets the recorded calls; admitted restarts with it
Reset ==
    /\ rate_limiter' = reset(rate_limiter)
    /\ admitted' = <<>>
    /\ outcome' = Outcome("reset", <<>>, "return", "", 0, "", NoCause, <<>>, <<>>)
    /\ UNCHANGED <<rvars, clock, threads>>

LimiterNext ==
    \/ Tick
    \/ WaitIfNeeded
    \/ RemainingCalls
    \/ Reset

LimiterSpec == LimiterInit /\ [][LimiterNext]_vars

(***************************************************************************)
(* Two renders that share one GoogleDocsService, and so one RateLimiter,   *)
(* each inside wait_if_needed on its own thread.  RateLimiter takes no     *)
(* lock: a thread may be suspended between any two of the reads and writes *)
(* of self.calls, and is suspended for the length of its time.sleep.       *)
(***************************************************************************)
MaxRounds == 2        \* calls of wait_if_needed made by one render

Threads == {1, 2}

\* the locals of one caller: now, the filtered list before it is assigned,
\* the time its sleep ends, whether it has slept, and the calls it completed
Caller(at, now, recent, wake, slept, done) ==
    [pc |-> at, now |-> now, recent |-> recent, wake |-> wake,
     slept |-> slept, done |-> done]

ConcurrentInit ==
    /\ IdleRenderer
    /\ clock = 0
    /\ \E max_calls \in 1..MaxCalls, period_seconds \in 1..MaxPeriod :
          rate_limiter = RateLimiter(max_calls, period_seconds)
    /\ admitted = <<>>
    /\ threads = [t \in Threads |-> Caller("idle", 0, <<>>, 0, FALSE, 0)]
    /\ outcome = NoOutcome

\* the clock of the concurrent callers
Elapse ==
    /\ clock < MaxClock
    /\ clock' = clock + 1
    /\ UNCHANGED <<rvars, rate_limiter, admitted, threads, outcome>>

\* line 41: now = time.time()
Enter ==
    \E t \in Threads :
        /\ threads[t].pc = "idle"
        /\ threads[t].done < MaxRounds
        /\ threads' = [threads EXCEPT ![t] =
                         Caller("purge", clock, <<>>, 0, FALSE, @.done)]
        /\ UNCHANGED <<rvars, clock, rate_limiter, admitted, outcome>>

\* lines 44 and 54, right-hand side: the list is read and filtered
PurgeRead ==
    \E t \in Threads :
        /\ threads[t].pc = "purge"
        /\ threads' = [threads EXCEPT
                ![t].recent = Recent(rate_limiter.calls, threads[t].now,
                                     rate_limiter.period),
                ![t].pc = "store"]
        /\ UNCHANGED <<rvars, clock, rate_limiter, admitted, outcome>>

\* lines 44 and 54, assignment: self.calls = <the filtered list>
PurgeStore ==
    \E t \in Threads :
        /\ threads[t].pc = "store"
        /\ rate_limiter' = [rate_limiter EXCEPT !.calls = threads[t].recent]
        /\ threads' = [threads EXCEPT
                ![t].recent = <<>>,
                ![t].pc = IF threads[t].slept THEN "append" ELSE "check"]
        /\ UNCHANGED <<rvars, clock, admitted, outcome>>

\* line 47: if len(self.calls) >= self.max_calls
CheckLimit ==
    \E t \in Threads :
        /\ threads[t].pc = "check"
        /\ threads' = [threads EXCEPT ![t].pc =
                IF Len(rate_limiter.calls) >= rate_limiter.max_calls
                THEN "oldest" ELSE "append"]
        /\ UNCHANGED <<rvars, clock, rate_limiter, admitted, outcome>>

\* lines 48 to 51: min, wait_time and the start of time.sleep;
\* min of a list another caller has emptied raises ValueError
ComputeWait ==
    \E t \in Threads :
        /\ threads[t].pc = "oldest"
        /\ IF Len(rate_limiter.calls) = 0
           THEN /\ threads' = [threads EXCEPT ![t].pc = "raised"]
                /\ outcome' = Outcome("wait_if_needed", <<>>, "raise", "", 0,
                                      "ValueError", NoCause, <<>>, <<>>)
           ELSE LET wait_time == WaitTime(rate_limiter.calls, threads[t].now,
                                          rate_limiter.period)
                IN  /\ threads' = [threads EXCEPT
                          ![t].wake = clock + wait_time,
                          ![t].pc = IF wait_time > 0 THEN "sleep" ELSE "append"]
                    /\ UNCHANGED outcome
        /\ UNCHANGED <<rvars, clock, rate_limiter, admitted>>

\* lines 51 and 53: the sleep is over; now = time.time()
WakeUp ==
    \E t \in Threads :
        /\ threads[t].pc = "sleep"
        /\ clock >= threads[t].wake
        /\ threads' = [threads EXCEPT ![t].now = clock,
                                      ![t].slept = TRUE,
                                      ![t].pc = "purge"]
        /\ UNCHANGED <<rvars, clock, rate_limiter, admitted, outcome>>

\* line 57: self.calls.append(time.time())
RecordCall ==
    \E t \in Threads :
        /\ threads[t].pc = "append"
        /\ rate_limiter' = [rate_limiter EXCEPT !.calls = Append(@, clock)]
        /\ admitted' = Append(admitted, clock)
        /\ threads' = [threads EXCEPT ![t] =
                         Caller("idle", 0, <<>>, 0, FALSE, @.done + 1)]
        /\ outcome' = Outcome("wait_if_needed", <<>>, "return", "", 0, "",
                              NoCause, <<>>,
                              IF threads[t].slept
                              THEN <<threads[t].wake - threads[t].now>>
                              ELSE <<>>)
        /\ UNCHANGED <<rvars, clock>>

ConcurrentNext ==
    \/ Elapse
    \/ Enter
    \/ PurgeRead
    \/ PurgeStore
    \/ CheckLimit
    \/ ComputeWait
    \/ WakeUp
    \/ RecordCall

ConcurrentSpec == ConcurrentInit /\ [][ConcurrentNext]_vars

(***************************************************************************)
(* One operation on a newly constructed GoogleDocsService: the arguments   *)
(* and the answers of the remote side are the inputs.                      *)
(***************************************************************************)
HeadingLevels == 0..7

ServiceInit ==
    /\ IdleRenderer
    /\ IdleService

\* the operation op(args) ends as r
Apply(op, args, r) ==
    /\ outcome.kind = "none"
    /\ rate_limiter' = r.st.limiter
    /\ clock' = r.st.clock
    /\ admitted' = admitted \o r.st.recorded
    /\ outcome' = Outcome(op, args, r.kind, r.value, r.n, r.error, r.cause,
                          r.st.invocations, r.st.sleeps)
    /\ UNCHANGED <<rvars, threads>>

ServiceCreateDocument ==
    \E script \in Scripts :
        Apply("create_document", <<"Test Document">>,
              service_create_document(ServiceState(rate_limiter, clock),
                                      "Test Document", script))

ServiceBatchUpdate ==
    \E requests \in {<<>>, <<InsertText(1, "Hello")>>}, script \in Scripts :
        Apply("batch_update", <<"test_doc_id", requests>>,
              service_batch_update(ServiceState(rate_limiter, clock),
                                   "test_doc_id", requests, script))

ServiceInsertText ==
    \E text \in {"", "Hello"}, script \in Scripts :
        Apply("insert_text", <<"test_doc_id", text, 1>>,
              service_insert_text(ServiceState(rate_limiter, clock),
                                  "test_doc_id", text, 1, script))

ServiceApplyHeadingStyle ==
    \E level \in HeadingLevels, script \in Scripts :
        Apply("apply_heading_style", <<"test_doc_id", 1, 10, level>>,
              service_apply_heading_style(ServiceState(rate_limiter, clock),
                                          "test_doc_id", 1, 10, level, script))

ServiceInsertImage ==
    \E image_path \in {"/img.png", "/nonexistent/path/image.png"},
       upload \in Responses, permission \in Responses, script \in Scripts :
        Apply("insert_image", <<"test_doc_id", image_path, 1>>,
              service_insert_image(ServiceState(rate_limiter, clock),
                                   "test_doc_id", image_path, 1, DefaultWidth,
                                   DefaultHeight, upload, permission, script))

ServiceNext ==
    \/ ServiceCreateDocument
    \/ ServiceBatchUpdate
    \/ ServiceInsertText
    \/ ServiceApplyHeadingStyle
    \/ ServiceInsertImage

ServiceSpec == ServiceInit /\ [][ServiceNext]_vars

(***************************************************************************)
(* Properties.                                                             *)
(***************************************************************************)
IsInsert(c) == c.op \in {"insert_text", "insert_image"}

\* the half-open range of offsets a call covers
RangeStart(c) == c.index
RangeEnd(c) ==
    CASE c.op = "insert_text" -> c.index + Len(c.text)
      [] c.op = "insert_image" -> c.index + 1
      [] OTHER -> c.end

\* C1: within one render, the offset of every insert_text / insert_image
\* call is 1 plus the content units (characters of text, 1 per image) sent
\* by the insert calls before it, whatever the template tree.
C1_OffsetIsOnePlusUnitsSent ==
    \A n \in 1..Len(calls) :
        IsInsert(calls[n]) => calls[n].index = 1 + Units(SubSeq(calls, 1, n - 1))

\* an image inserted inside a loop after the inserts of a nested loop
C1_Witness ==
    /\ pc = "done"
    /\ \E n \in 1..Len(calls) :
        /\ calls[n].op = "insert_image"
        /\ Len(calls[n].at) = 3
        /\ calls[n].index > 3
    /\ \E n \in 1..Len(calls) : IsInsert(calls[n]) /\ Len(calls[n].at) = 5

\* C2: every return of _render_section moves the cursor by exactly the
\* content units the section sent (a section that sent nothing returns the
\* cursor it was given), and no step of the render moves the cursor back.
C2_CursorAdvancesByUnitsSent ==
    [][ /\ returned'.new_index - returned'.index = returned'.sent
        /\ (returned' # returned => index' = returned'.new_index)
        /\ index' >= index ]_vars

\* a loop section has returned after sending several units from cursor > 1
C2_Witness ==
    /\ returned.type = "loop"
    /\ returned.index > 1
    /\ returned.sent > 3

\* the calls of the log that carry a range, in the order issued
Ranged(cs) == SelectSeq(cs, LAMBDA c : IsInsert(c) \/ c.op = "apply_heading_style")
Inserts(cs) == SelectSeq(cs, IsInsert)
Styles(cs) == SelectSeq(cs, LAMBDA c : c.op = "apply_heading_style")

\* each range of the sequence ends no later than the next one starts, and
\* starts strictly before it
Increasing(cs) ==
    \A n \in 1..(Len(cs) - 1) :
        /\ RangeEnd(cs[n]) <= RangeStart(cs[n + 1])
        /\ RangeStart(cs[n]) < RangeStart(cs[n + 1])

\* C3 as stated: the ranges passed to the insert and style operations of one
\* render form one non-overlapping, strictly increasing sequence.
C3_AllRangesIncreasing == Increasing(Ranged(calls))

\* C3 as amended: the ranges of the insert calls are non-overlapping and
\* strictly increasing, so are the ranges of the style calls, and every style
\* range starts where the insert_text issued immediately before it starts and
\* ends inside it.
C3_InsertRangesIncreasing ==
    /\ Increasing(Inserts(calls))
    /\ Increasing(Styles(calls))
    /\ \A n \in 1..Len(calls) :
        calls[n].op = "apply_heading_style" =>
            /\ n > 1
            /\ calls[n - 1].op = "insert_text"
            /\ RangeStart(calls[n]) = RangeStart(calls[n - 1])
            /\ RangeEnd(calls[n]) < RangeEnd(calls[n - 1])

\* a finished render that issued two headings and an insert after them
C3_Witness ==
    /\ pc = "done"
    /\ Len(Styles(calls)) >= 2
    /\ Len(Inserts(calls)) >= 3
    /\ calls[Len(calls) - 1].op = "insert_text"

\* C4: a Heading whose resolved text is non-empty issues, at cursor c,
\* insert_text(text + newline, c) and then apply_heading_style(c, c + len(text),
\* level) and returns c + len(text) + 1; a Heading or Paragraph whose resolved
\* text is empty issues no call and returns c.
C4_HeadingInsertThenStyle ==
    [][ (Running /\ Cur.type \in {"heading", "paragraph"}) =>
        LET text == _resolve_variable(Cur.text, heap[Top.loop_context])
            n == Len(calls)
        IN  /\ text = "" => calls' = calls /\ index' = index
            /\ (text # "" /\ Cur.type = "heading") =>
                /\ Len(calls') = n + 2
                /\ SubSeq(calls', 1, n) = calls
                /\ calls'[n + 1].op = "insert_text"
                /\ calls'[n + 1].text = text \o "\n"
                /\ calls'[n + 1].index = index
                /\ calls'[n + 2].op = "apply_heading_style"
                /\ calls'[n + 2].index = index
                /\ calls'[n + 2].end = index + Len(text)
                /\ calls'[n + 2].end - calls'[n + 2].index = Len(text)
                /\ calls'[n + 2].level = Cur.level
                /\ index' = index + Len(text) + 1 ]_vars

\* a heading with non-empty text has been rendered at a cursor beyond 1
C4_Witness ==
    /\ returned.type = "heading"
    /\ returned.index > 1
    /\ returned.sent > 1
    /\ calls[Len(calls)].op = "apply_heading_style"

\* place a comes no later than place b in the template's order: section
\* lists in order and, inside a loop, item by item
RECURSIVE PlaceLeq(_, _)
PlaceLeq(a, b) ==
    IF Len(a) = 0 \/ Len(b) = 0 THEN Len(a) = 0
    ELSE IF Head(a) # Head(b) THEN Head(a) < Head(b)
    ELSE PlaceLeq(Tail(a), Tail(b))

InTemplateOrder(cs) ==
    \A n \in 1..(Len(cs) - 1) :
        (cs[n].at # <<>> /\ cs[n + 1].at # <<>>) => PlaceLeq(cs[n].at, cs[n + 1].at)

\* what a call passes to the service
Args(c) == <<c.op, c.text, c.index, c.end, c.level>>

ScenarioTemplate ==
    TemplateFile("ok", ExprTitle, <<Heading(Lit("Hi"), 1), Paragraph(Lit("World"))>>)

\* C5: create_document is called exactly once and before any other call; the
\* calls of the sections follow in template order, each against the id that
\* create_document returned; get_document_url is called only after the last
\* section, and the render returns its value unchanged.  Title T, heading
\* "Hi" of level 1 and paragraph "World" give create(T), insertText("Hi\n", 1),
\* applyHeadingStyle(1, 3, 1), insertText("World", 4), getUrl.
C5_CreateFirstUrlLast ==
    /\ \A n \in 1..Len(calls) :
        /\ calls[n].op = "create_document" <=> n = 1
        /\ n > 1 => calls[n].doc = calls[1].ret
        /\ calls[n].op = "get_document_url" =>
              /\ n = Len(calls)
              /\ pc = "done"
              /\ result = [kind |-> "return", value |-> calls[n].ret]
    /\ InTemplateOrder(calls)
    /\ pc = "done" =>
        /\ calls[Len(calls)].op = "get_document_url"
        /\ Len(Inserts(calls)) + Len(Styles(calls)) = Len(calls) - 2
    /\ (pc = "done" /\ template = ScenarioTemplate) =>
        [n \in 1..Len(calls) |-> Args(calls[n])] =
            << <<"create_document", "T", 0, 0, 0>>,
               <<"insert_text", "Hi\n", 1, 0, 0>>,
               <<"apply_heading_style", "", 1, 3, 1>>,
               <<"insert_text", "World", 4, 0, 0>>,
               <<"get_document_url", "", 0, 0, 0>> >>

\* the scenario's render has returned the url of the second document id
C5_Witness ==
    /\ pc = "done"
    /\ template = ScenarioTemplate
    /\ doc_id = "doc2"
    /\ result.value = DocumentUrl("doc2")

LoopScenarioTemplate ==
    TemplateFile("ok", ExprTitle, <<Loop(<<"items">>, "item", <<ParagraphItemName>>)>>)

TwoChildrenTemplate ==
    TemplateFile("ok", ExprTitle,
        <<Loop(<<"items">>, "item", <<ParagraphItemName, HeadingItemName>>)>>)

\* C6: a loop over a list renders its whole list of child sections once per
\* item, items in list order and children in order within an item, with
\* item_name bound to the current item and the cursor threaded on; items
\* [{name: a}, {name: b}] and the child paragraph "{{ item.name }}" give
\* exactly insert_text "a" then insert_text "b".
C6_LoopItemMajor ==
    /\ InTemplateOrder(Inserts(calls))
    /\ \A d \in 1..Len(stack) :
        stack[d].kind = "loop" =>
            /\ stack[d].i \in 1..Len(stack[d].items)
            /\ DictGet(heap[stack[d].loop_context], stack[d].item_name)
                   = stack[d].items[stack[d].i]
            /\ index - stack[d].index0 = Units(calls) - stack[d].sent0
    /\ (pc = "done" /\ template = TwoChildrenTemplate) =>
        [n \in 1..Len(calls) |-> Args(calls[n])] =
            << <<"create_document", "T", 0, 0, 0>>,
               <<"insert_text", "a", 1, 0, 0>>,
               <<"insert_text", "a\n", 2, 0, 0>>,
               <<"apply_heading_style", "", 2, 3, 2>>,
               <<"insert_text", "b", 4, 0, 0>>,
               <<"insert_text", "b\n", 5, 0, 0>>,
               <<"apply_heading_style", "", 5, 6, 2>>,
               <<"get_document_url", "", 0, 0, 0>> >>
    /\ (pc = "done" /\ template = LoopScenarioTemplate) =>
        [n \in 1..Len(calls) |-> Args(calls[n])] =
            << <<"create_document", "T", 0, 0, 0>>,
               <<"insert_text", "a", 1, 0, 0>>,
               <<"insert_text", "b", 2, 0, 0>>,
               <<"get_document_url", "", 0, 0, 0>> >>

\* the loop scenario's render is done
C6_Witness ==
    /\ pc = "done"
    /\ template = LoopScenarioTemplate
    /\ Len(calls) = 4

\* C7: the context of a loop iteration is the caller's context plus
\* item_name bound to the current item and nothing else, and it is never
\* visible outside the iteration: the caller's mapping keeps exactly its keys
\* and values (a key equal to item_name included), during and after the loop.
C7_LoopContextIsolated ==
    /\ heap[context] = Context
    /\ \A d \in 1..Len(stack) :
        /\ stack[d].kind = "top" => stack[d].loop_context = context
        /\ stack[d].kind = "loop" =>
            /\ stack[d].loop_context # stack[d].context
            /\ stack[d].context = stack[d - 1].loop_context
            /\ heap[stack[d].loop_context] =
                   DictSet(heap[stack[d].context], stack[d].item_name,
                           stack[d].items[stack[d].i])
    /\ \A n \in 1..Len(calls) :
        \* "{{ item }}" rendered outside every loop shows the caller's value
        (calls[n].op = "insert_text" /\ Len(calls[n].at) = 1
            /\ template.sections[calls[n].at[1]] = Paragraph(RawItem))
        => calls[n].text = "old"

\* after a loop that bound "item" twice (and "row" in a nested loop), a
\* paragraph "{{ item }}" has been rendered from the caller's context
C7_Witness ==
    /\ pc = "done"
    /\ Len(heap) > 3
    /\ Len(template.sections) = 2
    /\ template.sections[1].type = "loop"
    /\ template.sections[1].item_name = "item"
    /\ calls[Len(calls) - 1].op = "insert_text"
    /\ calls[Len(calls) - 1].at = <<2>>
    /\ calls[Len(calls) - 1].text = "old"

\* C8: a loop whose variable resolves to a missing value, to a value that is
\* not a sequence, or to an empty list renders no child, issues no call and
\* returns the cursor unchanged.
C8_LoopWithoutItemsIsNoOp ==
    [][ (Running /\ Cur.type = "loop") =>
        LET items == _get_nested_value(Dict(heap[Top.loop_context]), Cur.variable)
        IN  (items.t # "list" \/ items = List(<<>>)) =>
                /\ calls' = calls
                /\ index' = index
                /\ heap' = heap
                /\ Len(stack') = Len(stack)
                /\ returned'.type = "loop"
                /\ returned'.new_index = index ]_vars

\* a loop over a dict (not a sequence) has returned without a call and the
\* section after it was rendered at the same cursor
C8_Witness ==
    /\ pc = "done"
    /\ Len(template.sections) = 2
    /\ template.sections[1] = Loop(<<"meta">>, "item", <<Paragraph(RawItem)>>)
    /\ Len(heap) = 1
    /\ Len(Inserts(calls)) = 1
    /\ calls[2].index = 1

\* the calls a step appends to the log
Appended == SubSeq(calls', Len(calls) + 1, Len(calls'))

\* C9: an Image section whose condition resolves to the empty string or to
\* "None", whose path resolves to the empty string or to "None", or whose
\* resolved path is not a file on disk makes no insert_image call and leaves
\* the cursor unchanged; any other Image section makes exactly one
\* insert_image call at the cursor, with the section's width and height, and
\* the cursor advances by 1.
C9_ImagePruning ==
    [][ (Running /\ Cur.type = "image") =>
        LET ctx == heap[Top.loop_context]
            condition == _resolve_variable(Cur.condition, ctx)
            path == _resolve_variable(Cur.path, ctx)
            pruned == \/ Cur.condition.k # "absent" /\ condition \in {"", "None"}
                      \/ path \in {"", "None"}
                      \/ path \notin Files
        IN  /\ SubSeq(calls', 1, Len(calls)) = calls
            /\ IF pruned
               THEN calls' = calls /\ index' = index
               ELSE /\ Appended = <<[insert_image(doc_id, path, index, Cur.width,
                                                  Cur.height)
                                       EXCEPT !.at = Place(stack)]>>
                    /\ index' = index + 1 ]_vars

\* C10: a section whose type is none of heading, paragraph, image, loop is
\* skipped: no call, no error, the cursor unchanged, and the render goes on
\* with the next section.
C10_UnknownTypeSkipped ==
    [][ (Running /\ Cur.type \notin {"heading", "paragraph", "image", "loop"}) =>
        /\ calls' = calls
        /\ index' = index
        /\ pc' = "sections"
        /\ result' = result
        /\ Len(stack') = Len(stack)
        /\ stack'[Len(stack)].j = Top.j + 1 ]_vars

\* a section of type "table" was skipped and the paragraph after it was
\* inserted at the first offset
C10_Witness ==
    /\ pc = "done"
    /\ Len(template.sections) = 2
    /\ template.sections[1].type = "table"
    /\ Len(Inserts(calls)) = 1
    /\ calls[2].index = 1
    /\ result.kind = "return"

(***************************************************************************)
(* C11.  A template that is not found, has a syntax error or does not      *)
(* render to JSON makes render_to_docs raise TemplateError before any      *)
(* remote operation: the service has received no call of any kind when the *)
(* error is raised, and no step follows the raise (nothing is retried).    *)
(***************************************************************************)
TemplateError == [kind |-> "raise", value |-> "TemplateError"]

C11_TemplateErrorBeforeRemote ==
    /\ [](template.kind \in {"missing", "syntax", "badjson"} =>
            /\ pc \in {"start", "raised"}
            /\ calls = <<>>
            /\ doc_id = ""
            /\ pc = "raised" => result = TemplateError)
    /\ [](result = TemplateError => calls = <<>> /\ pc = "raised")
    /\ [][result = TemplateError => FALSE]_vars

C11_Witness ==
    /\ template.kind = "badjson"
    /\ pc = "raised"
    /\ result = TemplateError
    /\ calls = <<>>

(***************************************************************************)
(* C12.  A section whose expression fails to render is rendered with the   *)
(* expression's source text: _resolve_variable returns the unresolved      *)
(* string, the text is inserted at the cursor, the cursor advances by its  *)
(* length, and render_to_docs goes on to the next section without raising. *)
(***************************************************************************)
Unresolvable(value, ctx) == value.k = "var" /\ ~render_string(value.path, ctx).ok

C12_ResolutionFailureIsLocal ==
    [][(/\ Running
        /\ Cur.type = "paragraph"
        /\ Unresolvable(Cur.text, heap[Top.loop_context]))
       => /\ calls' = Append(calls, [insert_text(doc_id, Cur.text.src, index)
                                        EXCEPT !.at = Place(stack)])
          /\ index' = index + Len(Cur.text.src)
          /\ stack' = [stack EXCEPT ![Len(stack)].j = @ + 1]
          /\ pc' = "sections"
          /\ result'.kind = "none"]_vars

C12_Witness ==
    /\ pc = "done"
    /\ result.kind = "return"
    /\ Len(template_config.sections) = 2
    /\ Unresolvable(template_config.sections[1].text, heap[context])
    /\ Len(calls) = 4
    /\ calls[2].op = "insert_text" /\ calls[2].text = "{{ row.x }}"
    /\ calls[2].index = 1
    /\ calls[3].op = "insert_text" /\ calls[3].text = "old"
    /\ calls[3].index = 1 + Len("{{ row.x }}")

(***************************************************************************)
(* C13.  For one caller, at every instant the limiter holds at most        *)
(* max_calls timestamps younger than period; no call is rejected: every    *)
(* wait_if_needed returns with its timestamp recorded as the newest one.   *)
(***************************************************************************)
Last(ts) == ts[Len(ts)]

C13_WindowNeverExceedsMaxCalls ==
    /\ Len(Recent(rate_limiter.calls, clock, rate_limiter.period))
          <= rate_limiter.max_calls
    /\ outcome.kind # "raise"
    /\ outcome.op = "wait_if_needed" =>
          /\ Len(rate_limiter.calls) > 0
          /\ Last(rate_limiter.calls) = Last(admitted)

C13_Witness ==
    /\ rate_limiter.max_calls = 2
    /\ outcome.op = "wait_if_needed"
    /\ outcome.sleeps # <<>>
    /\ Len(admitted) = 3
    /\ Len(Recent(rate_limiter.calls, clock, rate_limiter.period)) = 2

(***************************************************************************)
(* C14.  A wait_if_needed that finds max_calls timestamps younger than     *)
(* period sleeps period - (now - oldest) and records its call only after   *)
(* that, at least period after the oldest timestamp of the window; one     *)
(* that finds fewer records its call without sleeping.  Hence call number  *)
(* n + max_calls is recorded at least period after call number n: with     *)
(* max_calls = 2 and period = 1 three calls take at least one second.      *)
(***************************************************************************)
C14_BlocksUntilOldestExpires ==
    /\ [][Len(admitted') = Len(admitted) + 1 =>
            LET recent == Recent(rate_limiter.calls, clock, rate_limiter.period)
            IN  IF Len(recent) >= rate_limiter.max_calls
                THEN /\ outcome'.sleeps =
                           <<rate_limiter.period - (clock - Oldest(recent))>>
                     /\ clock' >= clock + outcome'.sleeps[1]
                     /\ Last(admitted') >= Oldest(recent) + rate_limiter.period
                     /\ Last(rate_limiter'.calls) = Last(admitted')
                ELSE /\ outcome'.sleeps = <<>>
                     /\ Last(admitted') <= clock + MaxLate
                     /\ rate_limiter'.calls =
                           Append(recent, Last(admitted'))]_vars
    /\ [](\A n \in 1..Len(admitted) :
            n + rate_limiter.max_calls <= Len(admitted) =>
               admitted[n + rate_limiter.max_calls]
                  >= admitted[n] + rate_limiter.period)

C14_Witness ==
    /\ rate_limiter.max_calls = 2
    /\ rate_limiter.period = 1
    /\ Len(admitted) = 3
    /\ admitted[1] = 0 /\ admitted[2] = 0 /\ admitted[3] = 1
    /\ outcome.op = "wait_if_needed"
    /\ outcome.sleeps = <<1>>

(***************************************************************************)
(* C15.  remaining_calls is max(0, max_calls - number of timestamps        *)
(* younger than period), is never negative, and reading it leaves the      *)
(* timestamp list, and everything else of the limiter, as it was.          *)
(***************************************************************************)
C15_RemainingCallsOnlyReads ==
    [][(outcome' # outcome /\ outcome'.op = "remaining_calls") =>
        LET young == {n \in 1..Len(rate_limiter.calls) :
                         clock - rate_limiter.calls[n] < rate_limiter.period}
            left == rate_limiter.max_calls - Cardinality(young)
        IN  /\ outcome'.n = IF left > 0 THEN left ELSE 0
            /\ outcome'.n >= 0
            /\ rate_limiter' = rate_limiter
            /\ admitted' = admitted
            /\ clock' = clock]_vars

C15_Witness ==
    /\ outcome.op = "remaining_calls"
    /\ rate_limiter.max_calls = 2
    /\ Len(rate_limiter.calls) = 2
    /\ Len(Recent(rate_limiter.calls, clock, rate_limiter.period)) = 1
    /\ outcome.n = 1

(***************************************************************************)
(* C16.  With two renders inside wait_if_needed on one shared limiter, in  *)
(* every interleaving the limiter holds at most max_calls timestamps       *)
(* younger than period, and the timestamp of every completed call that is  *)
(* still younger than period is in the list (none is lost).                *)
(***************************************************************************)
Count(ts, t) == Cardinality({n \in 1..Len(ts) : ts[n] = t})

C16_AtomicUnderConcurrency ==
    /\ Len(Recent(rate_limiter.calls, clock, rate_limiter.period))
          <= rate_limiter.max_calls
    /\ \A n \in 1..Len(admitted) :
          clock - admitted[n] < rate_limiter.period =>
             Count(rate_limiter.calls, admitted[n]) >= Count(admitted, admitted[n])

(***************************************************************************)
(* C17.  A remote call under the retry policy that fails with a transient  *)
(* HttpError (429 or 5xx) on every attempt is invoked exactly              *)
(* StopAfterAttempt = 3 times and the error of the last attempt is what    *)
(* the retry wrapper re-raises; one that fails k < 3 times with a          *)
(* transient error and then succeeds is invoked k + 1 times and its result *)
(* is returned.                                                            *)
(***************************************************************************)
Retried == {"create_document", "batch_update"}

Transient(resp) == resp.kind = "HttpError" /\ resp.status \in {429, 500}

Answers == [n \in 1..Len(outcome.invocations) |-> outcome.invocations[n].response]

C17_RetryCounting ==
    (outcome.op \in Retried /\ Len(Answers) > 0) =>
        /\ Len(Answers) <= StopAfterAttempt
        /\ (\A n \in 1..Len(Answers) : Transient(Answers[n])) =>
              /\ Len(Answers) = StopAfterAttempt
              /\ outcome.kind = "raise"
              /\ outcome.cause = Last(Answers)
        /\ (/\ \A n \in 1..(Len(Answers) - 1) : Transient(Answers[n])
            /\ Last(Answers).kind = "ok"
            /\ Last(Answers).id # "") =>
              /\ outcome.kind = "return"
              /\ outcome.value = Last(Answers).id
              /\ outcome.cause = NoCause

C17_Witness ==
    /\ outcome.op = "create_document"
    /\ Answers = <<HttpError(500), HttpError(500), HttpError(500)>>
    /\ outcome.kind = "raise"
    /\ outcome.error = "GoogleDocsError: Failed to create document"
    /\ outcome.cause = HttpError(500)

(***************************************************************************)
(* C18.  A remote call whose first attempt fails with a non-transient      *)
(* error (an HttpError 4xx other than 429, or a create response without    *)
(* documentId) is invoked exactly once and the operation fails without a   *)
(* backoff wait.                                                           *)
(***************************************************************************)
NonTransient(op, resp) ==
    \/ resp.kind = "HttpError" /\ resp.status \in 400..499 /\ resp.status # 429
    \/ op = "create_document" /\ resp.kind = "ok" /\ resp.id = ""

C18_NonTransientNotRetried ==
    (/\ outcome.op \in Retried
     /\ Len(Answers) > 0
     /\ NonTransient(outcome.op, Answers[1])) =>
        /\ Len(Answers) = 1
        /\ outcome.sleeps = <<>>
        /\ outcome.kind = "raise"

(***************************************************************************)
(* C20.  apply_heading_style with a level outside 1..6 raises ValueError   *)
(* with the limiter untouched, no remote invocation and no sleep; with a   *)
(* level in 1..6 it passes exactly one updateParagraphStyle request over   *)
(* [start, end) with that level's style to batch_update, which invokes the *)
(* remote side once unless an attempt fails.                               *)
(***************************************************************************)
C20_HeadingLevelValidated ==
    [][(outcome.kind = "none" /\ outcome'.op = "apply_heading_style") =>
        LET start == outcome'.args[2]
            end == outcome'.args[3]
            level == outcome'.args[4]
            sent == outcome'.invocations
        IN  IF level < 1 \/ level > 6
            THEN /\ outcome'.kind = "raise"
                 /\ outcome'.error = "ValueError"
                 /\ sent = <<>>
                 /\ outcome'.sleeps = <<>>
                 /\ rate_limiter' = rate_limiter
                 /\ admitted' = admitted
                 /\ clock' = clock
            ELSE /\ Len(sent) >= 1
                 /\ \A n \in 1..Len(sent) :
                       /\ sent[n].api = "documents.batchUpdate"
                       /\ sent[n].body =
                            <<UpdateParagraphStyle(start, end, HeadingTypes[level])>>
                 /\ sent[1].response.kind = "ok" =>
                       /\ Len(sent) = 1
                       /\ outcome'.kind = "return"
                       /\ Len(rate_limiter'.calls) = Len(rate_limiter.calls) + 1]_vars

C20_Witness ==
    /\ outcome.op = "apply_heading_style"
    /\ outcome.args[4] = 7
    /\ outcome.kind = "raise"
    /\ outcome.error = "ValueError"
    /\ outcome.invocations = <<>>
    /\ rate_limiter.calls = <<>>

(***************************************************************************)
(* render_to_docs on a GoogleDocsService whose remote calls may fail: each *)
(* call of the renderer either returns, as above, or raises what the       *)
(* operation of the service raises for some answers of the remote side.    *)
(* render_to_docs and _render_section catch nothing, so the exception      *)
(* leaves render_to_docs.  outcome keeps the operation that raised; the    *)
(* limiter and the clock of the service are not followed here.             *)
(***************************************************************************)
FailTemplates ==
    { TemplateFile("ok", ExprTitle, ss) : ss \in SeqUpTo(CoreLeaves, MaxSections) }
    \cup
    { TemplateFile("ok", Lit("Doc"), <<Heading(Lit("Hi"), 7), Paragraph(RawItem)>>),
      TwoChildrenTemplate }

RenderFailInit ==
    /\ Init
    /\ template \in FailTemplates

\* the class of the exception an operation raised
ErrorClass(error) ==
    IF error \in {"ValueError", "HttpError", "ConnectionError"} THEN error
    ELSE "GoogleDocsError"

\* the operation of GoogleDocsService behind a call of the renderer
ServiceCall(st, c, upload, permission, script) ==
    CASE c.op = "create_document" ->
            service_create_document(st, c.text, script)
      [] c.op = "insert_text" ->
            service_insert_text(st, c.doc, c.text, c.index, script)
      [] c.op = "apply_heading_style" ->
            service_apply_heading_style(st, c.doc, c.index, c.end, c.level, script)
      [] c.op = "insert_image" ->
            service_insert_image(st, c.doc, c.path, c.index, c.width, c.height,
                                 upload, permission, script)

\* what the current section calls on the service, as the Render actions do
SectionResult ==
    CASE SectionBranch(Cur.type) = "heading" ->
            _insert_heading(doc_id,
                _resolve_variable(Cur.text, heap[Top.loop_context]),
                Cur.level, index)
      [] SectionBranch(Cur.type) = "paragraph" ->
            _insert_text(doc_id,
                _resolve_variable(Cur.text, heap[Top.loop_context]), index)
      [] SectionBranch(Cur.type) = "image" ->
            RenderImageSection(doc_id, Cur, index, heap[Top.loop_context])
      [] OTHER -> [calls |-> <<>>, index |-> index]

\* mutant: after the failure the renderer still asks for the document's URL
Fails_then_get_document_url(received, r) ==
    /\ r.kind = "raise"
    /\ calls' = calls \o Issued(received) \o Issued(<<get_document_url(doc_id)>>)
    /\ result' = [kind |-> "raise", value |-> ErrorClass(r.error)]
    /\ pc' = "raised"
    /\ outcome' = Outcome(Last(received).op, <<>>, r.kind, r.value, r.n, r.error,
                          r.cause, r.st.invocations, r.st.sleeps)
    /\ UNCHANGED <<template, context, template_config, doc_id, index, stack,
                   heap, returned, clock, rate_limiter, admitted, threads>>

\* the last of the calls `received` raises r, which leaves render_to_docs
Fails(received, r) ==
    /\ r.kind = "raise"
    /\ calls' = calls \o Issued(received)
    /\ result' = [kind |-> "raise", value |-> ErrorClass(r.error)]
    /\ pc' = "raised"
    /\ outcome' = Outcome(Last(received).op, <<>>, r.kind, r.value, r.n, r.error,
                          r.cause, r.st.invocations, r.st.sleeps)
    /\ UNCHANGED <<template, context, template_config, doc_id, index, stack,
                   heap, returned, clock, rate_limiter, admitted, threads>>

\* render_to_docs, step 3: create_document raises
CreateDocumentRaises ==
    /\ pc = "create"
    /\ \E script \in Scripts :
        LET c == create_document(_resolve_variable(template_config.title,
                                                   heap[context]))
        IN  Fails(<<c>>, ServiceCall(ServiceState(rate_limiter, clock), c,
                                     Ok(""), Ok(""), script))

\* _render_section: a call of the current section raises
SectionRaises ==
    /\ Running
    /\ \E n \in 1..Len(SectionResult.calls), script \in Scripts,
          upload \in Responses, permission \in Responses :
        LET c == SectionResult.calls[n]
        IN  /\ c.op # "insert_image" => upload = Ok("") /\ permission = Ok("")
            /\ Fails(SubSeq(SectionResult.calls, 1, n),
                     ServiceCall(ServiceState(rate_limiter, clock), c,
                                 upload, permission, script))

RenderFailNext ==
    \/ Next
    \/ CreateDocumentRaises
    \/ SectionRaises

RenderFailSpec == RenderFailInit /\ [][RenderFailNext]_vars

(***************************************************************************)
(* C19.  A create, insert, style or image call that still fails when the   *)
(* retry policy has used its attempts leaves the service as GoogleDocsError *)
(* and render_to_docs raises it: the failing call is the last one the      *)
(* service receives, no later section is rendered and no URL is returned.  *)
(***************************************************************************)
Exhausted ==
    /\ Len(outcome.invocations) >= StopAfterAttempt
    /\ \A n \in 0..(StopAfterAttempt - 1) :
          outcome.invocations[Len(outcome.invocations) - n].response.kind
             = "HttpError"

C19_ExhaustedRetriesFailRender ==
    /\ [](outcome.kind = "raise" =>
            /\ pc = "raised"
            /\ result.kind = "raise"
            /\ result.value = ErrorClass(outcome.error)
            /\ Exhausted =>
                  /\ result.value = "GoogleDocsError"
                  /\ outcome.cause.kind = "HttpError"
            /\ Last(calls).op = outcome.op
            /\ \A n \in 1..Len(calls) : calls[n].op # "get_document_url")
    /\ [][result.kind = "raise" => FALSE]_vars

C19_Witness ==
    /\ template = ScenarioTemplate
    /\ result = [kind |-> "raise", value |-> "GoogleDocsError"]
    /\ outcome.op = "insert_text"
    /\ outcome.error = "GoogleDocsError: Batch update failed"
    /\ Answers = <<HttpError(500), HttpError(500), HttpError(500)>>
    /\ outcome.sleeps = <<4, 4>>
    /\ Len(calls) = 2
    /\ calls[2].op = "insert_text" /\ calls[2].text = "Hi\n"
    /\ stack[1].j = 0

(***************************************************************************)
(* C21.  Every remote invocation an operation of the service makes - the   *)
(* attempts of documents.create and documents.batchUpdate, and the Drive   *)
(* upload and permission calls of insert_image - is preceded by one        *)
(* wait_if_needed call of its own, and the timestamp that call recorded is *)
(* held by the limiter: the n-th invocation goes out when the operation    *)
(* has recorded exactly n timestamps.                                      *)
(***************************************************************************)
C21_LimiterBeforeEveryRemoteCall ==
    [][(outcome.kind = "none" /\ outcome'.kind # "none") =>
        LET sent == outcome'.invocations
        IN  /\ Len(admitted') = Len(admitted) + Len(sent)
            /\ \A n \in 1..Len(sent) :
                  /\ sent[n].slots = n
                  /\ \E m \in 1..Len(rate_limiter'.calls) :
                        rate_limiter'.calls[m] = admitted'[Len(admitted) + n]]_vars

C21_Witness ==
    /\ outcome.op = "insert_image"
    /\ outcome.kind = "return"
    /\ [n \in 1..Len(outcome.invocations) |-> outcome.invocations[n].api] =
          <<"files.create", "permissions.create", "documents.batchUpdate",
            "documents.batchUpdate", "documents.batchUpdate">>
    /\ Len(admitted) = 5
    /\ Len(rate_limiter.calls) = 5

(***************************************************************************)
(* C22.  A remote invocation of create_document, insert_text,              *)
(* apply_heading_style or insert_image that is answered with a transient   *)
(* HttpError (429 or 5xx) is made again, the same request to the same API, *)
(* unless it was already the StopAfterAttempt-th attempt in a row; only    *)
(* then does the operation fail.  This includes the Drive upload and       *)
(* permission calls of insert_image.                                       *)
(***************************************************************************)
AttemptsInARow(sent, n) ==
    Cardinality({m \in 1..n : \A k \in m..n : sent[k].api = sent[n].api})

C22_EveryRemoteCallRetried ==
    LET sent == outcome.invocations
    IN  \A n \in 1..Len(sent) :
            (Transient(sent[n].response)
                /\ AttemptsInARow(sent, n) < StopAfterAttempt) =>
                /\ n < Len(sent)
                /\ sent[n + 1].api = sent[n].api
                /\ sent[n + 1].body = sent[n].body

(***************************************************************************)
(* C23.  When an operation of the service raises while a section is being  *)
(* rendered, render_to_docs raises; the calls issued before stay as they   *)
(* were, the failing section adds only its calls up to the one that        *)
(* raised, none of them asks for the URL, and once render_to_docs has      *)
(* raised the service receives nothing more: nothing is undone and         *)
(* nothing is cleaned up.                                                  *)
(***************************************************************************)
C23_NoCleanupAfterFailure ==
    /\ [][(pc = "sections" /\ pc' = "raised") =>
            /\ result'.kind = "raise"
            /\ Len(calls') > Len(calls)
            /\ SubSeq(calls', 1, Len(calls)) = calls
            /\ \A n \in (Len(calls) + 1)..Len(calls') :
                  /\ calls'[n].op \in {"insert_text", "apply_heading_style",
                                       "insert_image"}
                  /\ calls'[n].doc = doc_id
            /\ Last(calls').op = outcome'.op
            /\ doc_id' = doc_id]_vars
    /\ [][pc = "raised" => calls' = calls /\ pc' = pc]_vars

C23_Witness ==
    /\ pc = "raised"
    /\ result = [kind |-> "raise", value |-> "GoogleDocsError"]
    /\ Len(stack) = 1
    /\ stack[1].j = 1
    /\ Len(calls) = 4
    /\ calls[1].op = "create_document"
    /\ calls[2].op = "insert_text"
    /\ calls[3].op = "apply_heading_style"
    /\ calls[4].op = "insert_text"
    /\ outcome.op = "insert_text"

(***************************************************************************)
(* Two render_to_docs calls running at once through one DocumentRenderer   *)
(* and one service.  The renderer object holds template_engine and         *)
(* docs_service only; everything else a render works with is a local of    *)
(* its own call frames.  The renderer variables hold the locals of the     *)
(* thread that is running, threads holds the locals of the thread that is  *)
(* not, and the scheduler may switch between two steps.  The heap, the     *)
(* caller's context dict and the service (its log of calls) are shared.    *)
(* The service gives every created document an id of its own.              *)
(***************************************************************************)
ParallelTemplates ==
    { ScenarioTemplate,
      TwoChildrenTemplate,
      TemplateFile("ok", ExprTitle,
          <<Image(Lit("/img.png"), 500, 300, Absent), Other("table", Lit("cells"))>>) }

\* the locals of one render_to_docs call
Locals(p, file, ctx, config, doc, idx, st, ret, res) ==
    [pc |-> p, template |-> file, context |-> ctx, template_config |-> config,
     doc_id |-> doc, index |-> idx, stack |-> st, returned |-> ret,
     result |-> res]

ParallelInit ==
    /\ pc = "start"
    /\ template \in ParallelTemplates
    /\ context = 1
    /\ heap = <<Context>>
    /\ template_config = NoConfig
    /\ doc_id = ""
    /\ index = 0
    /\ stack = <<>>
    /\ calls = <<>>
    /\ returned = NoReturn
    /\ result = [kind |-> "none", value |-> ""]
    /\ clock = 0
    /\ rate_limiter = RateLimiter(DefaultMaxCalls, DefaultPeriod)
    /\ admitted = <<>>
    /\ outcome = NoOutcome
    /\ \E file \in ParallelTemplates :
          threads = <<Locals("start", file, 1, NoConfig, "", 0, <<>>, NoReturn,
                             [kind |-> "none", value |-> ""])>>

\* mutant: the cursor is an attribute of the renderer, shared by the threads
Switch_cursor_on_renderer ==
    /\ threads' = <<Locals(pc, template, context, template_config, doc_id,
                           index, stack, returned, result)>>
    /\ pc' = threads[1].pc
    /\ template' = threads[1].template
    /\ context' = threads[1].context
    /\ template_config' = threads[1].template_config
    /\ doc_id' = threads[1].doc_id
    /\ index' = index
    /\ stack' = threads[1].stack
    /\ returned' = threads[1].returned
    /\ result' = threads[1].result
    /\ UNCHANGED <<heap, calls, clock, rate_limiter, admitted, outcome>>

\* the other thread is scheduled: each thread finds its own locals again
Switch ==
    /\ threads' = <<Locals(pc, template, context, template_config, doc_id,
                           index, stack, returned, result)>>
    /\ pc' = threads[1].pc
    /\ template' = threads[1].template
    /\ context' = threads[1].context
    /\ template_config' = threads[1].template_config
    /\ doc_id' = threads[1].doc_id
    /\ index' = threads[1].index
    /\ stack' = threads[1].stack
    /\ returned' = threads[1].returned
    /\ result' = threads[1].result
    /\ UNCHANGED <<heap, calls, clock, rate_limiter, admitted, outcome>>

\* a step of the running thread; documents().create answers with a new id
RunningThread ==
    /\ Next
    /\ doc_id' # doc_id => doc_id' # threads[1].doc_id

ParallelNext ==
    \/ RunningThread
    \/ Switch

ParallelSpec == ParallelInit /\ [][ParallelNext]_vars

(***************************************************************************)
(* render_to_docs run alone, as the function it is: the calls it issues    *)
(* for a template file, a context and the id the service returns.          *)
(***************************************************************************)
RECURSIVE AloneSection(_, _, _, _)
RECURSIVE AloneSections(_, _, _, _, _)
RECURSIVE AloneItems(_, _, _, _, _, _)

\* _render_section
AloneSection(doc, section, idx, ctx) ==
    CASE SectionBranch(section.type) = "heading" ->
            _insert_heading(doc, _resolve_variable(section.text, ctx),
                            section.level, idx)
      [] SectionBranch(section.type) = "paragraph" ->
            _insert_text(doc, _resolve_variable(section.text, ctx), idx)
      [] SectionBranch(section.type) = "image" ->
            RenderImageSection(doc, section, idx, ctx)
      [] SectionBranch(section.type) = "loop" ->
            LET items == _get_nested_value(Dict(ctx), section.variable)
            IN  IF ~IsIterable(items) THEN [calls |-> <<>>, index |-> idx]
                ELSE AloneItems(doc, section, Iterate(items), 1, idx, ctx)
      [] OTHER -> [calls |-> <<>>, index |-> idx]

\* `for section in sections: index = self._render_section(...)`, from the j-th
AloneSections(doc, sections, j, idx, ctx) ==
    IF j > Len(sections) THEN [calls |-> <<>>, index |-> idx]
    ELSE LET r == AloneSection(doc, sections[j], idx, ctx)
             rest == AloneSections(doc, sections, j + 1, r.index, ctx)
         IN  [calls |-> r.calls \o rest.calls, index |-> rest.index]

\* `for item in items:` of the loop branch, from the i-th item
AloneItems(doc, section, items, i, idx, ctx) ==
    IF i > Len(items) THEN [calls |-> <<>>, index |-> idx]
    ELSE LET b == BindLoopItem(<<ctx>>, 1, section.item_name, LoopItem(items, i))
             r == AloneSections(doc, section.sections, 1, idx, b.heap[b.id])
             rest == AloneItems(doc, section, items, i + 1, r.index, ctx)
         IN  [calls |-> r.calls \o rest.calls, index |-> rest.index]

\* render_to_docs
Alone(file, ctx, doc) ==
    LET r == LoadTemplate(file, ctx)
    IN  IF ~r.ok THEN <<>>
        ELSE <<[create_document(_resolve_variable(r.config.title, ctx))
                   EXCEPT !.ret = doc]>>
             \o AloneSections(doc, r.config.sections, 1, StartIndex, ctx).calls
             \o <<[get_document_url(doc) EXCEPT !.ret = DocumentUrl(doc)]>>

(***************************************************************************)
(* C24.  Two renders of different documents running concurrently through   *)
(* one DocumentRenderer: in every interleaving the calls the service       *)
(* receives for each document, offsets included, are from first to last    *)
(* the calls that render issues when it runs alone, and all of them once   *)
(* the render is done.                                                     *)
(***************************************************************************)
CallsFor(doc) ==
    LET own == SelectSeq(calls, LAMBDA c :
                   c.doc = doc \/ (c.op = "create_document" /\ c.ret = doc))
    IN  [n \in 1..Len(own) |-> [own[n] EXCEPT !.at = <<>>]]

AsAlone(l) ==
    LET alone == Alone(l.template, heap[l.context], l.doc_id)
        own == CallsFor(l.doc_id)
    IN  l.doc_id # "" =>
            /\ Len(own) <= Len(alone)
            /\ own = SubSeq(alone, 1, Len(own))
            /\ l.pc = "done" => own = alone

C24_ConcurrentRendersKeepOwnOffsets ==
    /\ AsAlone(Locals(pc, template, context, template_config, doc_id, index,
                      stack, returned, result))
    /\ AsAlone(threads[1])

C24_Witness ==
    /\ pc = "done" /\ threads[1].pc = "done"
    /\ template = ScenarioTemplate /\ threads[1].template = ScenarioTemplate
    /\ [n \in 1..Len(calls) |-> calls[n].doc] =
          <<"", "", "doc2", "doc2", "test_doc_id", "test_doc_id", "doc2",
            "test_doc_id", "test_doc_id", "doc2">>
    /\ [n \in 1..Len(calls) |-> calls[n].index] = <<0, 0, 1, 1, 1, 1, 4, 4, 0, 0>>

(***************************************************************************)
(* C25.  The delay waited after failed attempt number k of a document      *)
(* operation is min(60, 4 * 2^k) seconds - counting the attempts from 0 or *)
(* from 1 - and an operation waits at most StopAfterAttempt - 1 = 2 such   *)
(* delays.                                                                 *)
(***************************************************************************)
Min(a, b) == IF a < b THEN a ELSE b

C25_ExponentialBackoffDelays ==
    /\ Len(outcome.sleeps) <= StopAfterAttempt - 1
    /\ \A k \in 1..Len(outcome.sleeps) :
          \/ outcome.sleeps[k] = Min(60, 4 * Pow2(k - 1))
          \/ outcome.sleeps[k] = Min(60, 4 * Pow2(k))

(***************************************************************************)
(* One operation of the service followed statement by statement, on a      *)
(* service that has been used before: wait_if_needed up to its sleep, the  *)
(* sleep, the append, the remote call, and the sleep of the retry policy   *)
(* between two attempts.  threads holds the operation in progress: the     *)
(* remote calls it makes (plan), the one it is at (k), the attempt, the    *)
(* statement (at), the time its sleep ends (wake) and what it has done.    *)
(***************************************************************************)
StepResponses == {Ok("test_doc_id"), Ok(""), HttpError(500), ConnectionError}

\* timestamps the limiter holds after DefaultMaxCalls calls up to second 10
Histories ==
    { <<>>,
      [n \in 1..DefaultMaxCalls |-> 10],
      <<0, 5>> \o [n \in 1..(DefaultMaxCalls - 2) |-> 10] }

\* a remote call of an operation: retried by @retry or not, the answers to
\* its attempts, and the messages of the except clauses around it
RemoteCall(api, body, retried, script, http_message, other_message, id_message) ==
    [api |-> api, body |-> body, retried |-> retried, script |-> script,
     http_message |-> http_message, other_message |-> other_message,
     id_message |-> id_message]

\* create_document -> _create_document_with_retry
CreateDocumentPlan(title, script) ==
    <<RemoteCall("documents.create", <<title>>, TRUE, script,
                 "Failed to create document",
                 "Unexpected error creating document",
                 "Failed to get document ID from response")>>

\* batch_update -> _batch_update_with_retry
BatchUpdatePlan(requests, script) ==
    <<RemoteCall("documents.batchUpdate", requests, TRUE, script,
                 "Batch update failed", "Unexpected error in batch update", "")>>

\* insert_image: the two calls on the Drive service, then batch_update
InsertImagePlan(image_path, idx, width, height, upload, permission, script) ==
    <<RemoteCall("files.create", <<image_path>>, FALSE, <<upload>>,
                 "Failed to insert image", "Unexpected error inserting image",
                 "Failed to get file ID after upload"),
      RemoteCall("permissions.create", <<upload.id>>, FALSE, <<permission>>,
                 "Failed to insert image", "Unexpected error inserting image",
                 "")>>
    \o BatchUpdatePlan(<<InsertInlineImage(idx,
                            "https://drive.google.com/uc?id=" \o upload.id,
                            width, height)>>, script)

Operation(op, args, plan, n) ==
    [op |-> op, args |-> args, plan |-> plan, n |-> n, k |-> 1, attempt |-> 1,
     at |-> "wait_if_needed", wake |-> 0, naps |-> 0, recorded |-> <<>>,
     invocations |-> <<>>, sleeps |-> <<>>,
     start |-> [limiter |-> rate_limiter, clock |-> clock]]

StepInit ==
    /\ IdleRenderer
    /\ clock = 10
    /\ \E history \in Histories :
          rate_limiter = [RateLimiter(DefaultMaxCalls, DefaultPeriod)
                             EXCEPT !.calls = history]
    /\ admitted = <<>>
    /\ threads = <<>>
    /\ outcome = NoOutcome

InProgress == pc = "idle" /\ Len(threads) = 1 /\ outcome.kind = "none"
Op == threads[1]
OpState ==
    [limiter |-> rate_limiter, clock |-> clock, recorded |-> Op.recorded,
     invocations |-> Op.invocations, sleeps |-> Op.sleeps]

\* an operation is called
StepBegin ==
    /\ pc = "idle" /\ threads = <<>> /\ outcome.kind = "none"
    /\ \E script \in [1..StopAfterAttempt -> StepResponses] :
        \/ threads' = <<Operation("create_document", <<"Test Document">>,
                          CreateDocumentPlan("Test Document", script), 0)>>
        \/ threads' = <<Operation("insert_text", <<"test_doc_id", "Hello", 1>>,
                          BatchUpdatePlan(<<InsertText(1, "Hello")>>, script),
                          1 + Len("Hello"))>>
        \/ \E upload \in StepResponses, permission \in StepResponses :
              threads' = <<Operation("insert_image",
                              <<"test_doc_id", "/img.png", 1>>,
                              InsertImagePlan("/img.png", 1, DefaultWidth,
                                  DefaultHeight, upload, permission, script),
                              1 + 1)>>
    /\ UNCHANGED <<rvars, clock, rate_limiter, admitted, outcome>>

\* wait_if_needed up to `if wait_time > 0`
StepCheckLimit ==
    /\ InProgress /\ Op.at = "wait_if_needed"
    /\ LET recent == Recent(rate_limiter.calls, clock, rate_limiter.period)
           at_limit == Len(recent) >= rate_limiter.max_calls
           wait_time == IF at_limit
                        THEN WaitTime(recent, clock, rate_limiter.period) ELSE 0
       IN  /\ rate_limiter' = [rate_limiter EXCEPT !.calls = recent]
           /\ threads' =
                 IF wait_time > 0
                 THEN <<[Op EXCEPT !.at = "time.sleep",
                                   !.wake = clock + wait_time,
                                   !.naps = 1,
                                   !.sleeps = Append(@, wait_time)]>>
                 ELSE <<[Op EXCEPT !.at = "append", !.naps = 0]>>
    /\ UNCHANGED <<rvars, clock, admitted, outcome>>

\* mutant: the sleep ends and the window is checked once more
StepWake_checks_again ==
    /\ InProgress /\ Op.at = "time.sleep"
    /\ clock' = Op.wake
    /\ threads' = <<[Op EXCEPT !.at = "wait_if_needed"]>>
    /\ UNCHANGED <<rvars, rate_limiter, admitted, outcome>>

\* time.sleep(wait_time) returns; the list is purged again
StepWake ==
    /\ InProgress /\ Op.at = "time.sleep"
    /\ clock' = Op.wake
    /\ rate_limiter' = [rate_limiter EXCEPT !.calls =
                           Recent(@, Op.wake, rate_limiter.period)]
    /\ threads' = <<[Op EXCEPT !.at = "append"]>>
    /\ UNCHANGED <<rvars, admitted, outcome>>

\* self.calls.append(time.time())
StepAppend ==
    /\ InProgress /\ Op.at = "append"
    /\ rate_limiter' = [rate_limiter EXCEPT !.calls = Append(@, clock)]
    /\ admitted' = Append(admitted, clock)
    /\ threads' = <<[Op EXCEPT !.at = "execute",
                              !.recorded = Append(@, clock)]>>
    /\ UNCHANGED <<rvars, clock, outcome>>

\* the operation ends as r
Finish(r) ==
    /\ outcome' = Outcome(Op.op, Op.args, r.kind, r.value, r.n, r.error, r.cause,
                          r.st.invocations, r.st.sleeps)
    /\ threads' = <<[Op EXCEPT !.at = "done",
                              !.invocations = r.st.invocations]>>

\* <api>(...).execute() and what follows it up to the next wait or the end
StepExecute ==
    /\ InProgress /\ Op.at = "execute"
    /\ LET c == Op.plan[Op.k]
           resp == c.script[Op.attempt]
           st == Executed(OpState, c.api, c.body, resp)
           raised == Raises(st, resp.kind, resp)
       IN  IF resp.kind = "ok"
           THEN IF c.id_message # "" /\ resp.id = ""
                THEN Finish(Raises(st, "GoogleDocsError: " \o c.id_message,
                                   NoCause))
                ELSE IF Op.k < Len(Op.plan)
                THEN /\ threads' = <<[Op EXCEPT !.k = @ + 1,
                                               !.attempt = 1,
                                               !.at = "wait_if_needed",
                                               !.invocations = st.invocations]>>
                     /\ UNCHANGED outcome
                ELSE Finish(Returns(st, IF Op.n = 0 THEN resp.id ELSE "", Op.n))
           ELSE IF /\ c.retried
                   /\ retry_if_exception_type(raised)
                   /\ Op.attempt < StopAfterAttempt
                THEN /\ threads' = <<[Op EXCEPT
                            !.at = "backoff",
                            !.wake = clock + wait_exponential(Op.attempt),
                            !.sleeps = Append(@, wait_exponential(Op.attempt)),
                            !.invocations = st.invocations]>>
                     /\ UNCHANGED outcome
                ELSE Finish(Surfaced(raised, c.http_message, c.other_message))
    /\ UNCHANGED <<rvars, clock, rate_limiter, admitted>>

\* mutant: the limiter is consulted once, outside the retried function
StepBackoff_skips_limiter ==
    /\ InProgress /\ Op.at = "backoff"
    /\ clock' = Op.wake
    /\ threads' = <<[Op EXCEPT !.at = "execute", !.attempt = @ + 1]>>
    /\ UNCHANGED <<rvars, rate_limiter, admitted, outcome>>

\* the sleep of the retry policy returns and the function is called again
StepBackoff ==
    /\ InProgress /\ Op.at = "backoff"
    /\ clock' = Op.wake
    /\ threads' = <<[Op EXCEPT !.at = "wait_if_needed", !.attempt = @ + 1]>>
    /\ UNCHANGED <<rvars, rate_limiter, admitted, outcome>>

StepNext ==
    \/ StepBegin
    \/ StepCheckLimit
    \/ StepWake
    \/ StepAppend
    \/ StepExecute
    \/ StepBackoff

StepSpec == StepInit /\ [][StepNext]_vars

(***************************************************************************)
(* A behaviour that is either one render_to_docs call on a service whose   *)
(* operations may fail, or one operation of the service followed statement *)
(* by statement.  The thread is scheduled as long as it has a statement to *)
(* run, and a sleep ends when its time has come.                           *)
(***************************************************************************)
LiveInit ==
    \/ StepInit
    \/ Init /\ template \in ParallelTemplates

LiveNext ==
    \/ StepNext
    \/ RenderFailNext

LiveSpec == LiveInit /\ [][LiveNext]_vars /\ WF_vars(LiveNext)

(***************************************************************************)
(* C26.  Original statement: the thread is suspended nowhere but in the    *)
(* sleep of wait_if_needed.                                                *)
(***************************************************************************)
C26_OnlyWaitIfNeededSuspends ==
    (pc = "idle" /\ Len(threads) = 1) => Op.at # "backoff"

(***************************************************************************)
(* C26, amended.  A wait_if_needed call sleeps at most once, for more than *)
(* 0 and at most period seconds, and when the sleep ends it appends its    *)
(* timestamp without looking at the window again; an operation makes at    *)
(* most StopAfterAttempt attempts of a remote call; the clock moves on     *)
(* under an operation only in that sleep and in the sleep of the retry     *)
(* policy between two attempts, which lasts between WaitMin and WaitMax    *)
(* seconds; and every operation and every render eventually returns or     *)
(* raises.                                                                 *)
(***************************************************************************)
C26_TerminatesWithBoundedSleeps ==
    /\ []((pc = "idle" /\ Len(threads) = 1) =>
            /\ Op.naps <= 1
            /\ Op.attempt <= StopAfterAttempt
            /\ Op.at = "time.sleep" =>
                  /\ 0 < Op.wake - clock
                  /\ Op.wake - clock <= rate_limiter.period
            /\ Op.at = "backoff" =>
                  /\ WaitMin <= Op.wake - clock
                  /\ Op.wake - clock <= WaitMax)
    /\ [][(pc = "idle" /\ Len(threads) = 1) =>
            /\ Op.at = "time.sleep" =>
                  /\ threads'[1].at = "append"
                  /\ clock' = Op.wake
            /\ Op.at = "append" =>
                  /\ threads'[1].at = "execute"
                  /\ admitted' = Append(admitted, clock)
                  /\ rate_limiter'.calls = Append(rate_limiter.calls, clock)
            /\ clock' # clock => Op.at \in {"time.sleep", "backoff"}]_vars
    /\ <>(pc \in {"done", "raised"} \/ outcome.kind # "none")

C26_Witness ==
    /\ pc = "idle"
    /\ outcome.op = "create_document"
    /\ outcome.kind = "raise"
    /\ outcome.sleeps = <<50, 4, 1, 4, 1>>
    /\ Len(outcome.invocations) = StopAfterAttempt
    /\ clock = 70

(***************************************************************************)
(* C27.  A wait_if_needed call leaves in the list the timestamps that were *)
(* less than period old when it last purged, in their order, followed by   *)
(* exactly one new timestamp, the one it records; called when every        *)
(* timestamp held is period or more old, it leaves exactly one entry.      *)
(* After reset the list is empty and remaining_calls is max_calls.         *)
(***************************************************************************)
C27_PurgeThenAppendOne ==
    /\ [][Len(admitted') = Len(admitted) + 1 =>
            LET old == rate_limiter.calls
                new == rate_limiter'.calls
                period == rate_limiter.period
            IN  /\ Len(new) >= 1
                /\ Last(new) = Last(admitted')
                /\ \E purged \in clock..clock' :
                      SubSeq(new, 1, Len(new) - 1) =
                         SelectSeq(old, LAMBDA t : purged - t < period)
                /\ (\A n \in 1..Len(old) : clock - old[n] >= period) =>
                      Len(new) = 1]_vars
    /\ [](outcome.op = "reset" =>
            /\ rate_limiter.calls = <<>>
            /\ remaining_calls(rate_limiter, clock) = rate_limiter.max_calls)

C27_Witness ==
    /\ outcome.op = "wait_if_needed"
    /\ outcome.sleeps = <<>>
    /\ rate_limiter.max_calls = 2
    /\ rate_limiter.period = 2
    /\ admitted = <<0, 0, 2>>
    /\ rate_limiter.calls = <<2>>

(***************************************************************************)
(* C28.  Every attempt of a retried remote call takes a slot of the        *)
(* limiter: an operation whose call is answered k times with HttpError     *)
(* before another answer makes min(k + 1, StopAfterAttempt) attempts and   *)
(* records exactly one timestamp before each of them, all of which the     *)
(* limiter still holds at the end; it sleeps once between two attempts for *)
(* the retry policy and at most once more per attempt for the limiter.     *)
(***************************************************************************)
RECURSIVE LeadingHttpErrors(_)
LeadingHttpErrors(script) ==
    IF script = <<>> \/ script[1].kind # "HttpError" THEN 0
    ELSE 1 + LeadingHttpErrors(Tail(script))

C28_EveryAttemptTakesASlot ==
    (/\ pc = "idle" /\ Len(threads) = 1
     /\ outcome.op \in {"create_document", "insert_text"}) =>
        LET sent == outcome.invocations
            k == LeadingHttpErrors(Op.plan[1].script)
        IN  /\ Len(sent) = Min(k + 1, StopAfterAttempt)
            /\ Len(admitted) = Len(sent)
            /\ \A n \in 1..Len(sent) :
                  /\ sent[n].slots = n
                  /\ sent[n].response = Op.plan[1].script[n]
                  /\ \E m \in 1..Len(rate_limiter.calls) :
                        rate_limiter.calls[m] = admitted[n]
            /\ Len(outcome.sleeps) >= Len(sent) - 1
            /\ Len(outcome.sleeps) <= 2 * Len(sent) - 1

C28_Witness ==
    /\ pc = "idle"
    /\ outcome.op = "insert_text"
    /\ outcome.kind = "return"
    /\ outcome.n = 6
    /\ Answers = <<HttpError(500), HttpError(500), Ok("")>>
    /\ outcome.sleeps = <<50, 4, 1, 4, 1>>
    /\ admitted = <<60, 65, 70>>
    /\ rate_limiter.calls = <<60, 65, 70>>

(***************************************************************************)
(* C29.  A heading with non-empty text and a level outside 1..6, rendered  *)
(* against GoogleDocsService: apply_heading_style raises ValueError for    *)
(* whatever the remote side would answer, and when it does the service has *)
(* already received insert_text(text + newline, cursor); the style call is *)
(* the last call, no style request has gone to the remote side, and        *)
(* render_to_docs raises ValueError, not GoogleDocsError.                  *)
(***************************************************************************)
BadHeading ==
    /\ Running
    /\ SectionBranch(Cur.type) = "heading"
    /\ ~(1 <= Cur.level /\ Cur.level <= 6)
    /\ _resolve_variable(Cur.text, heap[Top.loop_context]) # ""

C29_BadLevelFailsAfterInsert ==
    /\ [](BadHeading =>
            LET text == _resolve_variable(Cur.text, heap[Top.loop_context])
                st == ServiceState(rate_limiter, clock)
            IN  \A script \in Scripts :
                    service_apply_heading_style(st, doc_id, index,
                        index + Len(text), Cur.level, script)
                      = Raises(st, "ValueError", NoCause))
    /\ [][(BadHeading /\ pc' = "raised" /\ outcome'.op = "apply_heading_style") =>
            LET text == _resolve_variable(Cur.text, heap[Top.loop_context])
            IN  /\ calls' = calls \o Issued(
                      <<insert_text(doc_id, text \o "\n", index),
                        apply_heading_style(doc_id, index, index + Len(text),
                                            Cur.level)>>)
                /\ outcome'.error = "ValueError"
                /\ outcome'.invocations = <<>>
                /\ result' = [kind |-> "raise", value |-> "ValueError"]]_vars

C29_Witness ==
    /\ pc = "raised"
    /\ result = [kind |-> "raise", value |-> "ValueError"]
    /\ outcome.op = "apply_heading_style"
    /\ outcome.error = "ValueError"
    /\ Len(calls) = 3
    /\ calls[2].op = "insert_text" /\ calls[2].text = "Hi\n" /\ calls[2].index = 1
    /\ calls[3].op = "apply_heading_style" /\ calls[3].level = 7
    /\ calls[3].index = 1 /\ calls[3].end = 3

(***************************************************************************)
(* C30.  Original statement: a successful insert_image makes three remote  *)
(* calls and takes three slots of the limiter.                             *)
(***************************************************************************)
C30_ThreeCallsPerImage ==
    (outcome.op = "insert_image" /\ outcome.kind = "return") =>
        /\ Len(outcome.invocations) = 3
        /\ Len(admitted) = 3

(***************************************************************************)
(* C30, amended.  insert_image calls the remote side in the order upload,  *)
(* permission grant, document update, one timestamp recorded before each   *)
(* call.  When it succeeds the upload and the grant were called once and   *)
(* the update, which alone is retried, one to StopAfterAttempt times with  *)
(* the same insertInlineImage request: three calls and three slots when    *)
(* the first attempt of the update succeeds, up to five otherwise.  An     *)
(* upload answered without file id, or a failed grant, raises              *)
(* GoogleDocsError at once: no update is sent, and no call removes the     *)
(* uploaded file.                                                          *)
(***************************************************************************)
C30_UploadShareThenInsert ==
    outcome.op = "insert_image" =>
        LET sent == outcome.invocations
            idx == outcome.args[3]
            updates == {n \in 1..Len(sent) : sent[n].api = "documents.batchUpdate"}
        IN  /\ Len(admitted) = Len(sent)
            /\ \A n \in 1..Len(sent) :
                  /\ sent[n].slots = n
                  /\ sent[n].api =
                        CASE n = 1 -> "files.create"
                          [] n = 2 -> "permissions.create"
                          [] OTHER -> "documents.batchUpdate"
                  /\ n >= 3 =>
                        sent[n].body =
                           <<InsertInlineImage(idx,
                                "https://drive.google.com/uc?id="
                                    \o sent[1].response.id,
                                DefaultWidth, DefaultHeight)>>
            /\ outcome.kind = "return" =>
                  /\ outcome.n = idx + 1
                  /\ Cardinality(updates) \in 1..StopAfterAttempt
                  /\ sent[3].response.kind = "ok" => Len(sent) = 3
            /\ (Len(sent) >= 1 /\ sent[1].response.id = "") =>
                  /\ outcome.kind = "raise"
                  /\ ErrorClass(outcome.error) = "GoogleDocsError"
                  /\ Len(sent) = 1
            /\ (Len(sent) >= 2 /\ sent[2].response.kind # "ok") =>
                  /\ outcome.kind = "raise"
                  /\ ErrorClass(outcome.error) = "GoogleDocsError"
                  /\ Len(sent) = 2

C30_Witness ==
    /\ outcome.op = "insert_image"
    /\ outcome.kind = "raise"
    /\ outcome.error = "GoogleDocsError: Failed to insert image"
    /\ [n \in 1..Len(outcome.invocations) |-> outcome.invocations[n].api] =
          <<"files.create", "permissions.create">>
    /\ outcome.invocations[1].response = Ok("test_doc_id")
    /\ outcome.invocations[2].response = HttpError(500)
    /\ rate_limiter.calls = <<0, 0>>

====
